---- MODULE Spec2Model ----
(***************************************************************************)
(* The data aggregation and caching engine of network_orb:                 *)
(*   - the entity snapshot cache networkDataCache (src/App.js),            *)
(*   - the on-demand refresh of the StatsCard effect (src/App.js),         *)
(*   - the warm-up driver preFetchNetworkData (src/App.js),                *)
(*   - the per-provider caches of the yield, stablecoin and sentiment      *)
(*     clients (services/yields.js, stablecoins, services/feargreed.js).   *)
(* Time is counted in minutes: Date.now() is `now`, 5 * 60 * 1000 ms is 5. *)
(***************************************************************************)
EXTENDS Integers, Sequences, FiniteSets, TLC

VARIABLES
    now,               \* Date.now(), in minutes
    networkDataCache,  \* App.js: const networkDataCache = new Map()
    refreshes,         \* the Aggregator invocations in flight
    launched,          \* how many on-demand invocations were started so far
    network,           \* StatsCard's `network` prop (the selected network)
    card,              \* what StatsCard shows (detailedData, priceData, ...)
    loading,           \* StatsCard's loading flag
    NETWORKS,          \* Hero.js: export let NETWORKS = [...BASE_NETWORKS]
    prefetch,          \* preFetchNetworkData: position of each entry of networksToFetch
    lastRet,           \* per entity, the snapshot the latest request returned
    poolsCache,            \* yields.js: let poolsCache = null
    poolsCacheTime,        \* yields.js: let poolsCacheTime = 0
    stablecoinChainsCache, \* stablecoins: let stablecoinChainsCache = null
    stablecoinCacheTime,   \* stablecoins: let stablecoinCacheTime = 0
    fngCache,              \* feargreed.js: let fngCache = null
    fngCacheTime,          \* feargreed.js: let fngCacheTime = 0
    fetches,           \* the HTTP requests of the bulk fetches in flight
    requested,         \* how many HTTP requests the bulk fetches issued so far
    lastCall,          \* the latest bulk fetch call and what it found
    downloads,         \* every HTTP request the bulk fetches issued so far
    lastAnswer,        \* what the bulk fetch that completed last returned
    client,            \* one provider client call, from its call to its settling
    resolution,        \* the provider keys that entity names were resolved to
    call,              \* the function applied last: its input and what it returned
    dappNodes,         \* App.js: const [dappNodes, setDappNodes] = useState(null)
    dappFetches,       \* the registry fetches started by App's dApp-node effect
    selections,        \* how many times selectedNetwork has changed
    mounted,           \* App's mount effect: let mounted = true
    cacheReady,        \* App.js: const [cacheReady, setCacheReady] = useState(false)
    resolved,          \* whether preFetchNetworkData()'s promise has resolved
    probe              \* test-api.js: where testAPI() is and what it found

entityVars == <<now, networkDataCache, refreshes, launched, network, card, loading,
                NETWORKS, prefetch, lastRet>>

providerVars == <<poolsCache, poolsCacheTime, stablecoinChainsCache,
                  stablecoinCacheTime, fngCache, fngCacheTime, fetches, requested,
                  lastCall, downloads, lastAnswer>>

dappVars == <<dappNodes, dappFetches, selections>>

mountVars == <<mounted, cacheReady, resolved>>

appVars == <<dappVars, mountVars, probe>>

vars == <<entityVars, providerVars, client, resolution, call, appVars>>

----------------------------------------------------------------------------
(* Bounds of the model *)

MaxOnDemand == 1
MaxRequests == 2
MaxHung == 1
MaxSelections == 3

(* Program constants *)

CACHE_MAX_AGE == 5
YIELDS_CACHE_TTL == 5
STABLECOINS_CACHE_TTL == 5
FEARGREED_CACHE_TTL == 10

(* Discovery: chains above $1M, the twenty largest; the roster takes the  *)
(* ones above $100M (TVLs in millions of dollars)                         *)
SIGNIFICANT_TVL == 1
TOP_CHAINS == 20
ROSTER_TVL == 100
FILLER_TVL == 200
MaxFillers == 20

(* The number of search matches the liquidity fallback sums *)
SEARCH_PAIRS == 10

(* The warm-up's stagger between roster entries, in milliseconds *)
STAGGER_MS == 50

----------------------------------------------------------------------------
(* The roster, and the fields of a snapshot *)

(* The clock readings told apart: a snapshot stamped at 0 is fresh at      *)
(* CACHE_MAX_AGE - 1 and stale from CACHE_MAX_AGE on.                      *)
Instants == {0, CACHE_MAX_AGE - 1, CACHE_MAX_AGE}

BASE_NETWORKS == <<"Ethereum", "Polygon">>

Names == {BASE_NETWORKS[i] : i \in DOMAIN BASE_NETWORKS}

(* A chain of the registry's list that loadAnalytics adds to the roster *)
DISCOVERED == <<"Linea">>

Fields == {"detailedData", "priceData", "historicalData", "dexScreenerData",
           "stablecoinData", "yieldData", "topYields", "fearGreedData"}

(* The entries of BASE_NETWORKS that carry a geckoId *)
WithGeckoId == {"Polygon"}

(* The provider calls an invocation issues: the price history is asked     *)
(* for only with a geckoId, and is Promise.resolve(null) without one.      *)
ProviderCalls(e) ==
    IF e \in WithGeckoId THEN Fields ELSE Fields \ {"historicalData"}

NoNetwork == "null"

(* JavaScript values, with the entity a provider payload was fetched for *)
Null == [kind |-> "null", of |-> "-"]
Zero == [kind |-> "0", of |-> "-"]
EmptyList == [kind |-> "[]", of |-> "-"]
MinimalDetails == [kind |-> "minimal", of |-> "-"]
Payload(f, e) == [kind |-> f, of |-> e]
Undefined == [kind |-> "undefined", of |-> "-"]

NoSnapshot == [obj |-> 0, key |-> "-", data |-> [f \in Fields |-> Null], fetchedAt |-> 0]

(* Variant: every failed provider call yields null *)
SoftFailNull(f) == Null

(* What a provider client resolves to when its network calls fail: it      *)
(* catches the error and returns a default.                                *)
SoftFail(f) ==
    CASE f = "detailedData" -> MinimalDetails
      [] f = "stablecoinData" -> Zero
      [] f = "topYields" -> EmptyList
      [] OTHER -> Null

(* The value of one provider promise of an invocation for entity e *)
ProviderResult(f, e, fails) ==
    IF f \notin ProviderCalls(e) THEN Null
    ELSE IF f \in fails THEN SoftFail(f) ELSE Payload(f, e)

(* Variant: the key is read from the selection current at completion *)
cacheKeyOfSelection(r) == IF network # NoNetwork THEN network ELSE r.net

(* const cacheKey = network.name, the network of the invocation's closure *)
cacheKey(r) == r.net

(* Variant: an invocation's join also waits for every other invocation *)
JoinedAcrossInvocations(r) == \A q \in refreshes : q.pending = {}

(* Variant: a join that resolves with the first promise to settle *)
JoinedOnFirst(r) == r.pending # ProviderCalls(r.net)

(* Promise.all / Promise.allSettled resolve once every promise has settled *)
Joined(r) == r.pending = {}

(* Variant: one failed provider call voids the results of all the others *)
SnapshotAllOrNothing(r, t) ==
    [obj |-> r.id, key |-> cacheKey(r),
     data |-> [f \in Fields |->
                 IF f \in r.pending THEN Undefined
                 ELSE ProviderResult(f, r.net, IF r.fails = {} THEN {} ELSE Fields)],
     fetchedAt |-> t]

(* Variant: a snapshot stamped with the time its invocation was launched *)
SnapshotStampedAtLaunch(r, t) ==
    [obj |-> r.id, key |-> cacheKey(r),
     data |-> [f \in Fields |->
                 IF f \in r.pending THEN Undefined
                 ELSE ProviderResult(f, r.net, r.fails)],
     fetchedAt |-> r.reqAt]

(* Variant: a refresh writes into the object the cache already holds *)
SnapshotInPlace(r, t) ==
    [obj |-> IF networkDataCache[cacheKey(r)] # NoSnapshot
             THEN networkDataCache[cacheKey(r)].obj ELSE r.id,
     key |-> cacheKey(r),
     data |-> [f \in Fields |->
                 IF f \in r.pending THEN Undefined
                 ELSE ProviderResult(f, r.net, r.fails)],
     fetchedAt |-> t]

(* The object handed to networkDataCache.set: each field holds the value  *)
(* its provider promise settled with (provider clients never reject, so   *)
(* every allSettled outcome is fulfilled), stamped fetchedAt: Date.now().  *)
(* A promise that has not settled has no value to give.                    *)
Snapshot(r, t) ==
    [obj |-> r.id, key |-> cacheKey(r),
     data |-> [f \in Fields |->
                 IF f \in r.pending THEN Undefined
                 ELSE ProviderResult(f, r.net, r.fails)],
     fetchedAt |-> t]

(* Variant: a stored snapshot is valid whatever its age *)
isCacheValidForever(cached, t) == cached # NoSnapshot

(* Variant: a snapshot aged exactly CACHE_MAX_AGE still counts as valid *)
isCacheValidInclusive(cached, t) ==
    /\ cached # NoSnapshot
    /\ t - cached.fetchedAt <= CACHE_MAX_AGE

(* const isCacheValid = cached && (Date.now() - cached.fetchedAt) < CACHE_MAX_AGE *)
isCacheValid(cached, t) ==
    /\ cached # NoSnapshot
    /\ t - cached.fetchedAt < CACHE_MAX_AGE

(* The cache-hit branch shows `cached.x || null` for four of the fields *)
ShowCached(f, v) ==
    IF f \in {"stablecoinData", "yieldData", "topYields", "fearGreedData"} /\ v = Zero
    THEN Null ELSE v

NoCard == [obj |-> 0, key |-> "-", data |-> [f \in Fields |-> Null]]

(* A request's return, kept per entity for the claims: the snapshot       *)
(* returned, when the request was made, and the snapshot the request      *)
(* before it returned (prevObj = 0: there was none).                      *)
NoRet == [obj |-> 0, fetchedAt |-> 0, reqAt |-> 0, prevObj |-> 0, prevAt |-> 0]

Returned(old, snap, t) ==
    [obj |-> snap.obj, fetchedAt |-> snap.fetchedAt, reqAt |-> t,
     prevObj |-> old.obj, prevAt |-> old.fetchedAt]

(* An invocation at its start. `earlier` keeps which refreshes of the     *)
(* entity had started before: those in flight and the one whose snapshot  *)
(* is stored.                                                             *)
NewRefresh(id, kind, e) ==
    [id |-> id, kind |-> kind, net |-> e, reqAt |-> now,
     pending |-> ProviderCalls(e), fails |-> {}, hung |-> {},
     earlier |-> {q.id : q \in {x \in refreshes : x.net = e}}
                    \cup {networkDataCache[e].obj}]

----------------------------------------------------------------------------
(* The provider clients' caches *)

(* The clock readings told apart by the 5 and 10 minute lifetimes *)
CacheInstants == {0, YIELDS_CACHE_TTL - 1, YIELDS_CACHE_TTL,
                  FEARGREED_CACHE_TTL - 1, FEARGREED_CACHE_TTL}

(* A cache variable holds null or the payload built from response n; an   *)
(* empty payload ([] or {}) is an object all the same.                     *)
NoPayload == [n |-> 0, kind |-> "null"]
BulkPayload(n, kind) == [n |-> n, kind |-> kind]

(* What the endpoint answers: data, a body without entries, or an error *)
Answers == {"data", "empty", "error"}

NoCall == [api |-> "-", at |-> 0, hit |-> FALSE, ret |-> NoPayload]

(* return [] / return {}: an empty collection that came from no response *)
EmptyBulk == [n |-> 0, kind |-> "empty"]

(* Variant: the catch of a bulk fetch returns null *)
BulkReturnNull(q, answer) ==
    IF answer = "data" \/ (answer = "empty" /\ q.api # "feargreed")
    THEN BulkPayload(q.n, answer)
    ELSE NoPayload

(* What a bulk fetch returns once its request has been answered: the      *)
(* payload built from the body, [] or {} from the catch; the sentiment    *)
(* client returns null from the catch and for a body without entries.     *)
BulkReturn(q, answer) ==
    IF q.api = "feargreed"
    THEN IF answer = "data" THEN BulkPayload(q.n, answer) ELSE NoPayload
    ELSE IF answer = "error" THEN EmptyBulk ELSE BulkPayload(q.n, answer)

(* The snapshot fields computed from a provider's bulk payload *)
DependentFields(api) ==
    CASE api = "chains" -> {"detailedData"}
      [] api = "stablecoins" -> {"stablecoinData"}
      [] api = "yields" -> {"yieldData", "topYields"}
      [] api = "feargreed" -> {"fearGreedData"}
      [] OTHER -> {}

(* The per-entity call on top of a bulk payload: fetchNetworkDetails has  *)
(* tvl = chainData?.tvl || 0, fetchChainStablecoinTVL returns 0 without   *)
(* an entry, fetchChainYieldStats null without pools, fetchChainTopYields *)
(* the empty list, fetchFearGreedIndex the bulk payload itself.           *)
PerEntity(f, bulk, e) ==
    IF bulk.kind = "data" THEN Payload(f, e)
    ELSE CASE f = "detailedData" -> MinimalDetails
           [] f = "stablecoinData" -> Zero
           [] f = "topYields" -> EmptyList
           [] OTHER -> Null

(* A completed bulk fetch: what it returned and what the per-entity calls *)
(* waiting for it return in turn                                          *)
Answered(q, answer) ==
    [api |-> q.api, answer |-> answer, ret |-> BulkReturn(q, answer),
     results |-> [e \in Names |->
                    [f \in DependentFields(q.api) |->
                       PerEntity(f, BulkReturn(q, answer), e)]]]

NoAnswer == [api |-> "-", answer |-> "-", ret |-> NoPayload,
             results |-> [e \in Names |-> [f \in {} |-> Null]]]

(* Variant: a payload aged exactly its lifetime still counts *)
CacheHitInclusive(cache, cacheTime, ttl, t) ==
    /\ cache # NoPayload
    /\ t - cacheTime <= ttl

(* if (poolsCache && (now - poolsCacheTime) < CACHE_TTL), and the same    *)
(* test in fetchStablecoinChains and fetchFearGreedIndex                  *)
CacheHit(cache, cacheTime, ttl, t) ==
    /\ cache # NoPayload
    /\ t - cacheTime < ttl

(* fetch(url): the request keeps the `now` its caller read on entry *)
NewFetch(api) == [api |-> api, n |-> requested + 1, now |-> now]

----------------------------------------------------------------------------
(* No function has been applied *)
NoCallYet == [fn |-> "-"]

(* useState(null) of dappNodes *)
NoNodes == [of |-> "-", nodes |-> "null"]

(* test-api.js: BASE_URLS, and the endpoints and protocolEndpoints of     *)
(* testAPI                                                                 *)
BASE_URLS == <<"https://api.llama.fi", "https://defillama.com">>
endpoints == <<"/api/v2/chains", "/v2/chains", "/chains", "/api/chains">>
protocolEndpoints == <<"/api/protocols", "/protocols">>

(* No endpoint was probed yet *)
NoProbeResult == [settled |-> "-", met |-> "-", success |-> FALSE, has |-> {}]

(* testAPI() is called when the script is loaded: it is about to probe    *)
(* the first chain endpoint of the first base URL, workingEndpoint is     *)
(* null                                                                    *)
testAPIStarts ==
    [phase |-> "chains", baseUrl |-> 1, endpoint |-> 1, result |-> NoProbeResult,
     probed |-> << >>, workingEndpoint |-> <<0, 0>>]

(* No name has been resolved *)
NoResolution == [provider |-> "-", tvlData |-> {}, keys |-> {}]

(* No provider client call has been made *)
NoClient == [fn |-> "-", net |-> "-", sent |-> << >>, outs |-> << >>,
             status |-> "idle", value |-> Null]

Init ==
    /\ now = 0
    /\ networkDataCache = [e \in Names |-> NoSnapshot]
    /\ refreshes = {}
    /\ launched = 0
    /\ network = NoNetwork
    /\ card = NoCard
    /\ loading = FALSE
    /\ NETWORKS = BASE_NETWORKS
    /\ prefetch = << >>
    /\ lastRet = [e \in Names |-> NoRet]
    /\ poolsCache = NoPayload
    /\ poolsCacheTime = 0
    /\ stablecoinChainsCache = NoPayload
    /\ stablecoinCacheTime = 0
    /\ fngCache = NoPayload
    /\ fngCacheTime = 0
    /\ fetches = {}
    /\ requested = 0
    /\ lastCall = NoCall
    /\ downloads = {}
    /\ lastAnswer = NoAnswer
    /\ client = NoClient
    /\ resolution = NoResolution
    /\ call = NoCallYet
    /\ dappNodes = NoNodes
    /\ dappFetches = {}
    /\ selections = 0
    /\ mounted = TRUE
    /\ cacheReady = FALSE
    /\ resolved = FALSE
    /\ probe = testAPIStarts

(* App's mount effect: NETWORKS is not empty, so startPreFetch calls       *)
(* preFetchNetworkData at once; entry i first waits for its i * 50 ms timer *)
StartPreFetch ==
    /\ prefetch = << >>
    /\ Len(NETWORKS) > 0
    /\ prefetch' = [i \in DOMAIN NETWORKS |-> "timer"]
    /\ UNCHANGED <<providerVars, client, resolution, call, appVars>>
    /\ UNCHANGED <<NETWORKS, now, networkDataCache, refreshes, launched, network, card,
                   loading, lastRet>>

(* Variant: every entry launches without a delay *)
NoDelay(i) == 0

(* The delay of roster entry i (index i - 1 of the array): index * 50 ms *)
LaunchDelay(i) == (i - 1) * STAGGER_MS

(* The timer of entry i fires: no pending timer is due earlier *)
TimerFires(p, i) ==
    /\ p[i] = "timer"
    /\ \A j \in DOMAIN p : p[j] = "timer" => LaunchDelay(i) <= LaunchDelay(j)

(* Variant: an entry that throws rejects the whole warm-up, which drops    *)
(* every entry that has not stored its snapshot                            *)
WarmupAbortsAll(p, i) == [j \in DOMAIN p |-> IF p[j] = "done" THEN "done" ELSE "failed"]

(* The catch of entry i of preFetchNetworkData: the error is logged and    *)
(* that entry's promise fulfils; no other entry is touched                 *)
WarmupCatch(p, i) == [p EXCEPT ![i] = "failed"]

(* preFetchNetworkData, entry i after its timer: import the modules and    *)
(* issue the provider calls; a failed import throws into the catch.        *)
WarmLaunch(i, noModules) ==
    /\ TimerFires(prefetch, i)
    /\ IF noModules
       THEN /\ prefetch' = WarmupCatch(prefetch, i)
            /\ UNCHANGED refreshes
       ELSE /\ prefetch' = [prefetch EXCEPT ![i] = "running"]
            /\ refreshes' = refreshes \cup {NewRefresh(i, "warmup", NETWORKS[i])}
    /\ UNCHANGED <<providerVars, client, resolution, call, appVars>>
    /\ UNCHANGED <<NETWORKS, now, networkDataCache, launched, network, card, loading,
                   lastRet>>

(* Variant: the effect's cleanup cancels the on-demand refresh in flight *)
cleanupCancels(inFlight) == {r \in inFlight : r.kind # "ondemand"}

(* StatsCard's effect returns no cleanup function: when `network` changes *)
(* the refreshes in flight are left as they are                           *)
cleanup(inFlight) == inFlight

(* StatsCard's effect when `network` becomes e, with at most `budget`    *)
(* on-demand refreshes started in a behaviour                             *)
Request(e, budget) ==
    /\ prefetch # << >>
    /\ \E i \in DOMAIN NETWORKS : NETWORKS[i] = e
    /\ network # e
    /\ network' = e
    /\ LET cached == networkDataCache[e] IN
       IF isCacheValid(cached, now)
       THEN /\ card' = [obj |-> cached.obj, key |-> e,
                        data |-> [f \in Fields |-> ShowCached(f, cached.data[f])]]
            /\ loading' = FALSE
            /\ lastRet' = [lastRet EXCEPT ![e] = Returned(lastRet[e], cached, now)]
            /\ refreshes' = cleanup(refreshes)
            /\ UNCHANGED launched
       ELSE /\ launched < budget
            /\ loading' = TRUE
            /\ launched' = launched + 1
            /\ refreshes' = cleanup(refreshes) \cup
                  {NewRefresh(Len(NETWORKS) + launched + 1, "ondemand", e)}
            /\ UNCHANGED <<card, lastRet>>
    /\ UNCHANGED <<providerVars, client, resolution, call, appVars>>
    /\ UNCHANGED <<NETWORKS, now, networkDataCache, prefetch>>

(* StatsCard's effect when `network` becomes e *)
SelectNetwork(e) == Request(e, MaxOnDemand)

(* StatsCard's effect when `network` becomes null *)
Deselect ==
    /\ network # NoNetwork
    /\ network' = NoNetwork
    /\ card' = NoCard
    /\ refreshes' = cleanup(refreshes)
    /\ UNCHANGED <<providerVars, client, resolution, call, appVars>>
    /\ UNCHANGED <<NETWORKS, now, networkDataCache, launched, loading, prefetch, lastRet>>

(* The provider promises S of invocation r settle; the calls of F failed  *)
SettleProvider(r, S, F) ==
    /\ S # {}
    /\ S \subseteq r.pending \ r.hung
    /\ F \subseteq S
    /\ refreshes' = (refreshes \ {r}) \cup
          {[r EXCEPT !.pending = r.pending \ S, !.fails = r.fails \cup F]}
    /\ UNCHANGED <<providerVars, client, resolution, call, appVars>>
    /\ UNCHANGED <<NETWORKS, now, networkDataCache, launched, network, card, loading,
                   prefetch, lastRet>>

(* Variant: a snapshot whose registry call failed is not stored *)
setUnlessFailed(cache, key, value) ==
    IF value.data["detailedData"] = MinimalDetails THEN cache
    ELSE [cache EXCEPT ![key] = value]

(* Variant: a cache that holds one entry, the last one written *)
setEvicting(cache, key, value) ==
    [e \in Names |-> IF e = key THEN value ELSE NoSnapshot]

(* networkDataCache.set(cacheKey, value): the Map has no delete or clear *)
set(cache, key, value) == [cache EXCEPT ![key] = value]

(* Promise.all(...).then(...) of the StatsCard effect *)
CompleteOnDemand(r) ==
    /\ r.kind = "ondemand"
    /\ Joined(r)
    /\ LET snap == Snapshot(r, now) IN
       /\ card' = [obj |-> snap.obj, key |-> r.net, data |-> snap.data]
       /\ networkDataCache' = set(networkDataCache, cacheKey(r), snap)
       /\ lastRet' = [lastRet EXCEPT ![r.net] = Returned(lastRet[r.net], snap, r.reqAt)]
    /\ loading' = FALSE
    /\ refreshes' = refreshes \ {r}
    /\ UNCHANGED <<providerVars, client, resolution, call, appVars>>
    /\ UNCHANGED <<NETWORKS, now, launched, network, prefetch>>

(* Variant: a join without a catch, the loading flag stays set *)
JoinRejectsUncaught(r) ==
    /\ r.kind = "ondemand"
    /\ r.pending = ProviderCalls(r.net)
    /\ refreshes' = refreshes \ {r}
    /\ UNCHANGED <<providerVars, client, resolution, call, appVars>>
    /\ UNCHANGED <<NETWORKS, now, networkDataCache, launched, network, card, loading,
                   prefetch, lastRet>>

(* Promise.all(...).catch(...) of the StatsCard effect: the registry       *)
(* module's import has no catch of its own.                                *)
JoinRejects(r) ==
    /\ r.kind = "ondemand"
    /\ r.pending = ProviderCalls(r.net)
    /\ loading' = FALSE
    /\ refreshes' = refreshes \ {r}
    /\ UNCHANGED <<providerVars, client, resolution, call, appVars>>
    /\ UNCHANGED <<NETWORKS, now, networkDataCache, launched, network, card, prefetch,
                   lastRet>>


(* preFetchNetworkData, entry i after await Promise.allSettled([...]) *)
CompleteWarm(r) ==
    /\ r.kind = "warmup"
    /\ Joined(r)
    /\ networkDataCache' = set(networkDataCache, cacheKey(r), Snapshot(r, now))
    /\ prefetch' = [prefetch EXCEPT ![r.id] = "done"]
    /\ refreshes' = refreshes \ {r}
    /\ UNCHANGED <<providerVars, client, resolution, call, appVars>>
    /\ UNCHANGED <<NETWORKS, now, launched, network, card, loading, lastRet>>

(* Time passes, up to the next instant of T; the warm-up's timers (under  *)
(* a second) fire before it does                                          *)
Tick(T) ==
    /\ \E t \in T : t > now
    /\ \A i \in DOMAIN prefetch : prefetch[i] # "timer"
    /\ now' = CHOOSE t \in T : t > now /\ \A u \in T : u > now => t <= u
    /\ UNCHANGED <<providerVars, client, resolution, call, appVars>>
    /\ UNCHANGED <<NETWORKS, networkDataCache, refreshes, launched, network, card,
                   loading, prefetch, lastRet>>

Next ==
    \/ StartPreFetch
    \/ \E i \in DOMAIN prefetch, noModules \in BOOLEAN : WarmLaunch(i, noModules)
    \/ \E e \in Names : SelectNetwork(e)
    \/ Deselect
    \/ \E r \in refreshes : SettleProvider(r, r.pending \ r.hung, {})
    \/ \E r \in refreshes : CompleteOnDemand(r)
    \/ \E r \in refreshes : JoinRejects(r)
    \/ \E r \in refreshes : CompleteWarm(r)
    \/ Tick(Instants)

Spec == Init /\ [][Next]_vars

(* SpecLive follows the same steps under the event loop: a provider        *)
(* promise that can settle settles, and the continuation of a settled join *)
(* runs.                                                                   *)
Continuations ==
    \/ \E r \in refreshes : SettleProvider(r, r.pending \ r.hung, {})
    \/ \E r \in refreshes : CompleteOnDemand(r)
    \/ \E r \in refreshes : CompleteWarm(r)

(* The instants at which a snapshot taken at 0 is fresh and is stale *)
Epochs == {0, CACHE_MAX_AGE}

NextLive ==
    \/ StartPreFetch
    \/ \E i \in DOMAIN prefetch, noModules \in BOOLEAN : WarmLaunch(i, noModules)
    \/ \E e \in Names : SelectNetwork(e)
    \/ Deselect
    \/ Continuations
    \/ \E r \in refreshes : JoinRejects(r)
    \/ Tick(Epochs)

SpecLive == Init /\ [][NextLive]_vars /\ WF_vars(Continuations)

(* Spec follows concurrent invocations through time with their provider   *)
(* calls answered; SpecAgg follows one Aggregator invocation at a time,    *)
(* its provider promises settling one by one in every order, each          *)
(* succeeding or failing.                                                  *)
Quiet ==
    /\ refreshes = {}
    /\ \A e \in Names : networkDataCache[e] = NoSnapshot

NextAgg ==
    \/ StartPreFetch
    \/ \E i \in DOMAIN prefetch, noModules \in BOOLEAN : Quiet /\ WarmLaunch(i, noModules)
    \/ \E e \in Names : Quiet /\ SelectNetwork(e)
    \/ Deselect
    \/ \E r \in refreshes, f \in Fields :
          \E F \in SUBSET {f} : SettleProvider(r, {f}, F)
    \/ \E r \in refreshes : CompleteOnDemand(r)
    \/ \E r \in refreshes : JoinRejects(r)
    \/ \E r \in refreshes : CompleteWarm(r)

SpecAgg == Init /\ [][NextAgg]_vars

(* The registry's /v2/chains answer: chains with a name and a TVL in      *)
(* millions of dollars, or a failed fetch                                 *)
Chain(name, tvl) == [name |-> name, tvl |-> tvl]
FetchError == <<Chain("-", -1)>>

(* Chains that only fill the list, each with a TVL of 200 *)
FillerNames == <<
    "Chain01", "Chain02", "Chain03", "Chain04", "Chain05", "Chain06",
    "Chain07", "Chain08", "Chain09", "Chain10", "Chain11", "Chain12",
    "Chain13", "Chain14", "Chain15", "Chain16", "Chain17", "Chain18",
    "Chain19", "Chain20", "Chain21">>
Fillers(n) == [i \in 1..n |-> Chain(FillerNames[i], FILLER_TVL)]

(* A static entity and two other chains, each absent from the list or     *)
(* present with a TVL at or above the two thresholds                      *)
ListedNames == <<BASE_NETWORKS[1], DISCOVERED[1], "Scroll">>
ListedTvls == {0, SIGNIFICANT_TVL, ROSTER_TVL \div 2, ROSTER_TVL, ROSTER_TVL + 50}

RECURSIVE Listed(_, _)
Listed(i, tvls) ==
    IF i > Len(ListedNames) THEN << >>
    ELSE (IF tvls[i] = 0 THEN << >> ELSE <<Chain(ListedNames[i], tvls[i])>>)
         \o Listed(i + 1, tvls)

ChainLists ==
    {FetchError} \cup
    {Listed(1, tvls) \o Fillers(n) :
        tvls \in [DOMAIN ListedNames -> ListedTvls], n \in {0, MaxFillers - 2, MaxFillers}}

(* The list with which the registry reports the chain of DISCOVERED *)
DiscoveredList == <<Chain(DISCOVERED[1], ROSTER_TVL + 50)>>

(* sort((a, b) => b.tvl - a.tvl): descending, equal TVLs keep their order *)
RECURSIVE InsertByTvl(_, _)
InsertByTvl(chain, sorted) ==
    IF sorted = << >> THEN <<chain>>
    ELSE IF Head(sorted).tvl >= chain.tvl
         THEN <<Head(sorted)>> \o InsertByTvl(chain, Tail(sorted))
         ELSE <<chain>> \o sorted

RECURSIVE SortByTvl(_)
SortByTvl(chains) ==
    IF chains = << >> THEN << >>
    ELSE InsertByTvl(chains[Len(chains)], SortByTvl(SubSeq(chains, 1, Len(chains) - 1)))

(* Variant: every chain of the list counts *)
AnyTvl(chain) == TRUE

(* filter(chain => chain.tvl && chain.tvl > 1000000) *)
SignificantTvl(chain) == chain.tvl > SIGNIFICANT_TVL

(* fetchAllChains: the twenty largest chains above $1M; [] on an error *)
fetchAllChains(data) ==
    IF data = FetchError THEN << >>
    ELSE LET significantChains == SortByTvl(SelectSeq(data, SignificantTvl))
         IN  SubSeq(significantChains, 1,
                    IF Len(significantChains) < TOP_CHAINS
                    THEN Len(significantChains) ELSE TOP_CHAINS)

(* loadAnalytics: the chains above $100M that BASE_NETWORKS does not name *)
IsAdditional(chain) == chain.name \notin Names /\ chain.tvl > ROSTER_TVL

additionalNetworks(allChains) ==
    LET found == SelectSeq(allChains, IsAdditional)
    IN  [i \in DOMAIN found |-> found[i].name]

(* Variant: the roster becomes the discovered chains alone *)
onlyAdditional(additional) == additional

(* [...updatedBaseNetworks, ...additionalNetworks] *)
allNetworks(additional) == BASE_NETWORKS \o additional

(* Hero's loadAnalytics, once per mount, after its registry fetches: the  *)
(* chains found are appended to the roster. App's mount effect has run by *)
(* then.                                                                  *)
loadAnalytics(data) ==
    /\ prefetch # << >>
    /\ call = NoCallYet
    /\ NETWORKS' = allNetworks(additionalNetworks(fetchAllChains(data)))
    /\ call' = [fn |-> "loadAnalytics", data |-> data,
                allChains |-> fetchAllChains(data)]
    /\ UNCHANGED <<providerVars, client, resolution, appVars>>
    /\ UNCHANGED <<now, networkDataCache, refreshes, launched, network, card, loading,
                   prefetch, lastRet>>

(* SpecWarm follows the warm-up alone, from the mount effect to the       *)
(* return of preFetchNetworkData: timers fire and provider promises       *)
(* settle (each client call settles, whatever its requests meet).         *)
NextWarm ==
    \/ StartPreFetch
    \/ \E i \in DOMAIN prefetch, noModules \in BOOLEAN : WarmLaunch(i, noModules)
    \/ \E r \in refreshes, f \in Fields : SettleProvider(r, {f}, {})
    \/ \E r \in refreshes : CompleteWarm(r)
    \/ loadAnalytics(DiscoveredList)

WarmSettled ==
    /\ prefetch # << >>
    /\ \A i \in DOMAIN prefetch : prefetch[i] \in {"done", "failed"}

SpecWarm == Init /\ [][NextWarm]_vars /\ WF_vars(NextWarm)

(* A provider call of invocation r hangs: its promise will never settle *)
ProviderHangs(r, f) ==
    /\ f \in r.pending \ r.hung
    /\ Cardinality(r.hung) < MaxHung
    /\ refreshes' = (refreshes \ {r}) \cup {[r EXCEPT !.hung = r.hung \cup {f}]}
    /\ UNCHANGED <<providerVars, client, resolution, call, appVars>>
    /\ UNCHANGED <<NETWORKS, now, networkDataCache, launched, network, card, loading,
                   prefetch, lastRet>>

(* SpecHang follows the warm-up with provider calls that may hang; every  *)
(* other step is taken in the end.                                        *)
WarmSteps ==
    \/ StartPreFetch
    \/ \E i \in DOMAIN prefetch, noModules \in BOOLEAN : WarmLaunch(i, noModules)
    \/ \E r \in refreshes : SettleProvider(r, r.pending \ r.hung, {})
    \/ \E r \in refreshes : CompleteWarm(r)

NextHang ==
    \/ WarmSteps
    \/ \E r \in refreshes, f \in Fields : ProviderHangs(r, f)

SpecHang == Init /\ [][NextHang]_vars /\ WF_vars(WarmSteps)

(* Which provider calls of an invocation fail: the registry's, or all *)
FailureSets(r) == {{"detailedData"}, ProviderCalls(r.net)}

(* Two instants less than the maximum age apart *)
FreshInstants == {0, CACHE_MAX_AGE - 1}

(* SpecFail follows requests and warm-up through time with provider calls *)
(* that fail                                                              *)
NextFail ==
    \/ StartPreFetch
    \/ \E i \in DOMAIN prefetch : WarmLaunch(i, FALSE)
    \/ \E e \in Names : SelectNetwork(e)
    \/ Deselect
    \/ \E r \in refreshes : \E F \in FailureSets(r) : SettleProvider(r, r.pending, F)
    \/ \E r \in refreshes : CompleteOnDemand(r)
    \/ \E r \in refreshes : CompleteWarm(r)
    \/ Tick(FreshInstants)

SpecFail == Init /\ [][NextFail]_vars

(* SpecReject follows requests whose join may reject, with room for one   *)
(* more request after a rejection                                         *)
NextReject ==
    \/ StartPreFetch
    \/ \E e \in Names : Request(e, MaxOnDemand + 1)
    \/ Deselect
    \/ \E r \in refreshes : \E F \in FailureSets(r) \cup {{}} :
          SettleProvider(r, r.pending, F)
    \/ \E r \in refreshes : CompleteOnDemand(r)
    \/ \E r \in refreshes : JoinRejects(r)

SpecReject == Init /\ [][NextReject]_vars

(* await Promise.allSettled(fetchPromises) is over: preFetchNetworkData   *)
(* resolves and startPreFetch's then-callback runs,                       *)
(* if (mounted) setCacheReady(true)                                       *)
preFetchResolves ==
    /\ prefetch # << >>
    /\ \A i \in DOMAIN prefetch : prefetch[i] \in {"done", "failed"}
    /\ ~resolved
    /\ resolved' = TRUE
    /\ cacheReady' = IF mounted THEN TRUE ELSE cacheReady
    /\ UNCHANGED <<entityVars, providerVars, client, resolution, call, dappVars,
                   mounted, probe>>

(* The cleanup of App's mount effect: mounted = false *)
Unmount ==
    /\ prefetch # << >>
    /\ mounted
    /\ mounted' = FALSE
    /\ UNCHANGED <<entityVars, providerVars, client, resolution, call, dappVars,
                   cacheReady, resolved, probe>>

(* SpecMount follows the warm-up from the mount to its then-callback,     *)
(* with roster discovery and the unmount at any moment; every step of the *)
(* warm-up is taken in the end.                                           *)
WarmToTheEnd ==
    \/ StartPreFetch
    \/ \E i \in DOMAIN prefetch : WarmLaunch(i, FALSE)
    \/ \E r \in refreshes : SettleProvider(r, r.pending, {})
    \/ \E r \in refreshes : CompleteWarm(r)
    \/ preFetchResolves

NextMount ==
    \/ WarmToTheEnd
    \/ \E i \in DOMAIN prefetch : WarmLaunch(i, TRUE)
    \/ loadAnalytics(DiscoveredList)
    \/ Unmount

SpecMount == Init /\ [][NextMount]_vars /\ WF_vars(WarmToTheEnd)

(* SpecRoster follows the roster from the mount to the end of discovery,  *)
(* for every answer of the registry.                                      *)
NextRoster ==
    \/ StartPreFetch
    \/ \E data \in ChainLists : loadAnalytics(data)

SpecRoster == Init /\ [][NextRoster]_vars

----------------------------------------------------------------------------
(* The bulk fetches of the provider clients *)

(* A bulk fetch up to its fetch(url): return the cached payload, or issue *)
(* the request                                                            *)
BulkCall(api, cache, cacheTime, ttl) ==
    IF CacheHit(cache, cacheTime, ttl, now)
    THEN /\ lastCall' = [api |-> api, at |-> now, hit |-> TRUE, ret |-> cache]
         /\ UNCHANGED <<fetches, requested, downloads>>
    ELSE /\ requested < MaxRequests
         /\ fetches' = fetches \cup {NewFetch(api)}
         /\ downloads' = downloads \cup {NewFetch(api)}
         /\ requested' = requested + 1
         /\ lastCall' = [api |-> api, at |-> now, hit |-> FALSE, ret |-> NoPayload]

(* yields.js fetchAllPools, up to its fetch *)
fetchAllPools ==
    /\ BulkCall("yields", poolsCache, poolsCacheTime, YIELDS_CACHE_TTL)
    /\ UNCHANGED <<poolsCache, poolsCacheTime, stablecoinChainsCache,
                   stablecoinCacheTime, fngCache, fngCacheTime, lastAnswer>>
    /\ UNCHANGED <<entityVars, client, resolution, call, appVars>>

(* fetchAllPools after its fetch: poolsCache = data.data || [] *)
PoolsResponse(q, answer) ==
    /\ q.api = "yields"
    /\ fetches' = fetches \ {q}
    /\ IF answer = "error"
       THEN UNCHANGED <<poolsCache, poolsCacheTime>>
       ELSE /\ poolsCache' = BulkPayload(q.n, answer)
            /\ poolsCacheTime' = q.now
    /\ lastAnswer' = Answered(q, answer)
    /\ UNCHANGED <<stablecoinChainsCache, stablecoinCacheTime, fngCache, fngCacheTime,
                   requested, lastCall, downloads>>
    /\ UNCHANGED <<entityVars, client, resolution, call, appVars>>

(* stablecoins fetchStablecoinChains, up to its fetch *)
fetchStablecoinChains ==
    /\ BulkCall("stablecoins", stablecoinChainsCache, stablecoinCacheTime,
                STABLECOINS_CACHE_TTL)
    /\ UNCHANGED <<poolsCache, poolsCacheTime, stablecoinChainsCache,
                   stablecoinCacheTime, fngCache, fngCacheTime, lastAnswer>>
    /\ UNCHANGED <<entityVars, client, resolution, call, appVars>>

(* fetchStablecoinChains after its fetch: a body that is no array leaves  *)
(* chainMap = {}                                                          *)
StablecoinChainsResponse(q, answer) ==
    /\ q.api = "stablecoins"
    /\ fetches' = fetches \ {q}
    /\ IF answer = "error"
       THEN UNCHANGED <<stablecoinChainsCache, stablecoinCacheTime>>
       ELSE /\ stablecoinChainsCache' = BulkPayload(q.n, answer)
            /\ stablecoinCacheTime' = q.now
    /\ lastAnswer' = Answered(q, answer)
    /\ UNCHANGED <<poolsCache, poolsCacheTime, fngCache, fngCacheTime, requested,
                   lastCall, downloads>>
    /\ UNCHANGED <<entityVars, client, resolution, call, appVars>>

(* feargreed.js fetchFearGreedIndex, up to its fetch *)
fetchFearGreedIndex ==
    /\ BulkCall("feargreed", fngCache, fngCacheTime, FEARGREED_CACHE_TTL)
    /\ UNCHANGED <<poolsCache, poolsCacheTime, stablecoinChainsCache,
                   stablecoinCacheTime, fngCache, fngCacheTime, lastAnswer>>
    /\ UNCHANGED <<entityVars, client, resolution, call, appVars>>

(* fetchFearGreedIndex after its fetch: a body without entries returns    *)
(* null before anything is stored                                         *)
FearGreedResponse(q, answer) ==
    /\ q.api = "feargreed"
    /\ fetches' = fetches \ {q}
    /\ IF answer # "data"
       THEN UNCHANGED <<fngCache, fngCacheTime>>
       ELSE /\ fngCache' = BulkPayload(q.n, answer)
            /\ fngCacheTime' = q.now
    /\ lastAnswer' = Answered(q, answer)
    /\ UNCHANGED <<poolsCache, poolsCacheTime, stablecoinChainsCache,
                   stablecoinCacheTime, requested, lastCall, downloads>>
    /\ UNCHANGED <<entityVars, client, resolution, call, appVars>>

(* defillama.js fetchChainTVL, up to its fetch: the registry client keeps  *)
(* no cache, every call downloads /v2/chains                               *)
fetchChainTVL ==
    /\ requested < MaxRequests
    /\ fetches' = fetches \cup {NewFetch("chains")}
    /\ downloads' = downloads \cup {NewFetch("chains")}
    /\ requested' = requested + 1
    /\ lastCall' = [api |-> "chains", at |-> now, hit |-> FALSE, ret |-> NoPayload]
    /\ UNCHANGED <<poolsCache, poolsCacheTime, stablecoinChainsCache,
                   stablecoinCacheTime, fngCache, fngCacheTime, lastAnswer>>
    /\ UNCHANGED <<entityVars, client, resolution, call, appVars>>

(* fetchChainTVL after its fetch: the tvlMap built from the body, {} for a *)
(* body that is no array, and return {} from the catch                     *)
ChainTVLResponse(q, answer) ==
    /\ q.api = "chains"
    /\ fetches' = fetches \ {q}
    /\ lastAnswer' = Answered(q, answer)
    /\ UNCHANGED <<poolsCache, poolsCacheTime, stablecoinChainsCache,
                   stablecoinCacheTime, fngCache, fngCacheTime, requested, lastCall,
                   downloads>>
    /\ UNCHANGED <<entityVars, client, resolution, call, appVars>>

NextCache ==
    \/ fetchChainTVL
    \/ \E q \in fetches, answer \in Answers : ChainTVLResponse(q, answer)
    \/ fetchAllPools
    \/ \E q \in fetches, answer \in Answers : PoolsResponse(q, answer)
    \/ fetchStablecoinChains
    \/ \E q \in fetches, answer \in Answers : StablecoinChainsResponse(q, answer)
    \/ fetchFearGreedIndex
    \/ \E q \in fetches, answer \in Answers : FearGreedResponse(q, answer)
    \/ Tick(CacheInstants)

SpecCache == Init /\ [][NextCache]_vars

----------------------------------------------------------------------------
(* One provider client call and its network requests *)

ClientFns == {"fetchNetworkDetails", "fetchNetworkCoinData", "fetchHistoricalPrice",
              "fetchChainTotalLiquidity", "searchTokens", "fetchChainStablecoinTVL",
              "fetchChainYieldStats", "fetchChainTopYields", "fetchFearGreedIndex"}

(* How a request ends: a body with the entity, a body without it, a      *)
(* transport error, a status that is not 2xx, a body that cannot be read  *)
Outcomes == {"ok", "absent", "transport", "status", "malformed"}

(* A fetch site: its URL, and whether the code throws on !response.ok     *)
(* (otherwise it returns a default on the spot)                           *)
Site(url, throwsOnStatus) == [url |-> url, throwsOnStatus |-> throwsOnStatus]

(* The requests of fetchNetworkDetails for a name of CHAIN_NAME_MAP:      *)
(* fetchChainTVL, fetchProtocols and fetchChainProtocols, then DEX        *)
(* volume, fees, bridges and historical TVL                               *)
DetailsSites ==
    <<Site("api.llama.fi/v2/chains", TRUE),
      Site("api.llama.fi/protocols", TRUE),
      Site("api.llama.fi/protocols", FALSE),
      Site("api.llama.fi/overview/dexs", FALSE),
      Site("api.llama.fi/overview/fees", FALSE),
      Site("api.llama.fi/bridges", FALSE),
      Site("api.llama.fi/v2/historicalChainTvl", FALSE)>>

(* The fetch sites a client call runs through, in program order, with     *)
(* its caches cold                                                        *)
Sites(fn, e) ==
    CASE fn = "fetchNetworkDetails" -> DetailsSites
      [] fn = "fetchNetworkCoinData" -> <<Site("api.coingecko.com/coins", TRUE)>>
      [] fn = "fetchHistoricalPrice" -> <<Site("api.coingecko.com/market_chart", TRUE)>>
      [] fn = "fetchChainTotalLiquidity" -> <<Site("api.dexscreener.com/pairs", FALSE)>>
      [] fn = "searchTokens" -> <<Site("api.dexscreener.com/search", TRUE)>>
      [] fn = "fetchChainStablecoinTVL" -> <<Site("stablecoins.llama.fi/stablecoinchains", TRUE)>>
      [] fn = "fetchChainYieldStats" -> <<Site("yields.llama.fi/pools", TRUE)>>
      [] fn = "fetchChainTopYields" -> <<Site("yields.llama.fi/pools", TRUE)>>
      [] fn = "fetchFearGreedIndex" -> <<Site("api.alternative.me/fng", TRUE)>>

(* fetch() rejects on a transport error, response.json() on a body that  *)
(* cannot be read, and the code throws on a bad status where it does      *)
ThrowsAt(site, outcome) ==
    \/ outcome \in {"transport", "malformed"}
    \/ outcome = "status" /\ site.throwsOnStatus

(* Variant: the yield client awaits its bulk fetch outside any try *)
CatchesExceptYields(fn, i) == fn \notin {"fetchChainYieldStats", "fetchChainTopYields"}

(* Whether fetch site i of fn lies inside a try whose catch returns a     *)
(* value: every site does                                                 *)
Catches(fn, i) == TRUE

(* The snapshot field a client call feeds *)
FieldOf(fn) ==
    CASE fn = "fetchNetworkDetails" -> "detailedData"
      [] fn = "fetchNetworkCoinData" -> "priceData"
      [] fn = "fetchHistoricalPrice" -> "historicalData"
      [] fn \in {"fetchChainTotalLiquidity", "searchTokens"} -> "dexScreenerData"
      [] fn = "fetchChainStablecoinTVL" -> "stablecoinData"
      [] fn = "fetchChainYieldStats" -> "yieldData"
      [] fn = "fetchChainTopYields" -> "topYields"
      [] fn = "fetchFearGreedIndex" -> "fearGreedData"

(* A body that was read but holds nothing for the entity *)
EmptyBody == [kind |-> "{}", of |-> "-"]

(* What the call returns, from the outcomes of its requests: the values  *)
(* rest on the first request (the registry's TVL on /v2/chains); the      *)
(* market-data and search clients return the body as it came              *)
ClientValue(fn, e, outs) ==
    IF outs[1] = "ok" THEN Payload(FieldOf(fn), e)
    ELSE IF outs[1] = "absent"
              /\ fn \in {"fetchNetworkCoinData", "fetchHistoricalPrice", "searchTokens"}
         THEN EmptyBody
    ELSE CASE fn = "fetchNetworkDetails" -> MinimalDetails
           [] fn = "fetchChainStablecoinTVL" -> Zero
           [] fn = "fetchChainTopYields" -> EmptyList
           [] OTHER -> Null

(* A provider client function is called for entity e and issues its       *)
(* first request                                                          *)
CallClient(fn, e) ==
    /\ client.status # "pending"
    /\ client' = [fn |-> fn, net |-> e, sent |-> <<Sites(fn, e)[1].url>>,
                  outs |-> << >>, status |-> "pending", value |-> Null]
    /\ UNCHANGED <<entityVars, providerVars, resolution, call, appVars>>

(* The request in flight ends: the call rejects if the site throws        *)
(* outside a try, goes on to its next request, or returns                 *)
RequestEnds(outcome) ==
    /\ client.status = "pending"
    /\ LET i == Len(client.outs) + 1
           sites == Sites(client.fn, client.net)
           outs == Append(client.outs, outcome)
       IN  client' =
             IF ThrowsAt(sites[i], outcome) /\ ~Catches(client.fn, i)
             THEN [client EXCEPT !.outs = outs, !.status = "rejected"]
             ELSE IF i < Len(sites)
             THEN [client EXCEPT !.outs = outs,
                                 !.sent = Append(client.sent, sites[i + 1].url)]
             ELSE [client EXCEPT !.outs = outs, !.status = "fulfilled",
                                 !.value = ClientValue(client.fn, client.net, outs)]
    /\ UNCHANGED <<entityVars, providerVars, resolution, call, appVars>>

NextClient ==
    \/ \E fn \in ClientFns, e \in Names : CallClient(fn, e)
    \/ \E outcome \in Outcomes : RequestEnds(outcome)

SpecClient == Init /\ [][NextClient]_vars

----------------------------------------------------------------------------
(* Resolution of entity names to provider keys *)

(* The resolvers: fetchNetworkDetails and fetchChainProtocols of the      *)
(* registry client, the coin id, the liquidity chain id                   *)
Providers == {"defillama", "defillama/protocols", "coingecko", "dexscreener"}

(* Names to resolve: two of the registry's map, an alias, an unknown one *)
ResolveNames == {"Ethereum", "BSC", "BNB Chain", "Linea"}

(* The names under which the registry's chain list may hold the BNB chain *)
RegistryNames == {"BSC", "BNB Chain", "Binance", "bsc", "linea"}

NoEntry == [defillamaName |-> "-", altNames |-> << >>]

(* defillama.js CHAIN_NAME_MAP, the entries of the names above *)
CHAIN_NAME_MAP(name) ==
    CASE name = "Ethereum" -> [defillamaName |-> "Ethereum", altNames |-> <<"Ethereum">>]
      [] name = "BSC" -> [defillamaName |-> "BSC",
                          altNames |-> <<"BSC", "BNB Chain", "Binance">>]
      [] name = "Cosmos" -> [defillamaName |-> "CosmosHub",
                             altNames |-> <<"Cosmos", "CosmosHub", "Cosmos Hub">>]
      [] OTHER -> NoEntry

(* coingecko COINGECKO_IDS *)
COINGECKO_IDS(name) ==
    CASE name = "Ethereum" -> "ethereum"
      [] name = "BSC" -> "binancecoin"
      [] name = "BNB Chain" -> "binancecoin"
      [] OTHER -> "undefined"

(* dexscreener.js DEXSCREENER_CHAIN_MAP *)
DEXSCREENER_CHAIN_MAP(name) ==
    CASE name = "Ethereum" -> "ethereum"
      [] name = "BSC" -> "bsc"
      [] name = "BNB Chain" -> "bsc"
      [] OTHER -> "undefined"

toLowerCase(name) ==
    CASE name = "Ethereum" -> "ethereum"
      [] name = "BSC" -> "bsc"
      [] name = "bsc" -> "bsc"
      [] name = "BNB Chain" -> "bnb chain"
      [] name = "Binance" -> "binance"
      [] name = "Linea" -> "linea"
      [] name = "linea" -> "linea"

(* Variant: alternative names are not consulted *)
NoAltName(altNames, tvlData) == "-"

(* The first alternative name found in the chain list, or "-" *)
RECURSIVE FirstAltName(_, _)
FirstAltName(altNames, tvlData) ==
    IF altNames = << >> THEN "-"
    ELSE IF Head(altNames) \in tvlData THEN Head(altNames)
    ELSE FirstAltName(Tail(altNames), tvlData)

(* fetchNetworkDetails: the registry chain name it settles on, given the  *)
(* names tvlData has a chain under                                        *)
defillamaChainName(networkName, tvlData) ==
    LET chainInfo == CHAIN_NAME_MAP(networkName)
        first == IF chainInfo # NoEntry THEN chainInfo.defillamaName ELSE networkName
        alt == FirstAltName(chainInfo.altNames, tvlData)
        matches == {key \in tvlData :
                       \/ toLowerCase(key) = toLowerCase(networkName)
                       \/ toLowerCase(key) = toLowerCase(first)}
    IN  IF networkName \in tvlData \/ first \in tvlData THEN first
        ELSE IF alt # "-" THEN alt
        ELSE IF matches # {} THEN CHOOSE key \in matches : TRUE
        ELSE first

(* fetchChainProtocols: the mapping's name; without a mapping the name    *)
(* if the chain list has it, else the list's key equal to it ignoring     *)
(* case, else the name                                                    *)
fetchChainProtocolsName(chainName, chainData) ==
    LET chainInfo == CHAIN_NAME_MAP(chainName)
        matches == {key \in chainData : toLowerCase(key) = toLowerCase(chainName)}
    IN  IF chainInfo # NoEntry THEN chainInfo.defillamaName
        ELSE IF chainName \in chainData THEN chainName
        ELSE IF matches # {} THEN CHOOSE key \in matches : TRUE
        ELSE chainName

(* getCoinGeckoId: COINGECKO_IDS[networkName] || null *)
getCoinGeckoId(networkName) ==
    IF COINGECKO_IDS(networkName) # "undefined" THEN COINGECKO_IDS(networkName)
    ELSE "null"

(* Variant: the chain id comes from the map alone *)
chainIdFromMap(networkName) == DEXSCREENER_CHAIN_MAP(networkName)

(* StatsCard: chainIdMap[network.name] || network.name.toLowerCase() *)
chainId(networkName) ==
    IF DEXSCREENER_CHAIN_MAP(networkName) # "undefined"
    THEN DEXSCREENER_CHAIN_MAP(networkName)
    ELSE toLowerCase(networkName)

ProviderKey(provider, networkName, tvlData) ==
    CASE provider = "defillama" -> defillamaChainName(networkName, tvlData)
      [] provider = "defillama/protocols" -> fetchChainProtocolsName(networkName, tvlData)
      [] provider = "coingecko" -> getCoinGeckoId(networkName)
      [] provider = "dexscreener" -> chainId(networkName)

(* Names are resolved for a provider; the registry's against a chain list *)
StartResolving(provider, tvlData) ==
    /\ provider \in {"defillama", "defillama/protocols"} \/ tvlData = {}
    /\ resolution' = [provider |-> provider, tvlData |-> tvlData, keys |-> {}]
    /\ UNCHANGED <<entityVars, providerVars, client, call, appVars>>

(* One more name is resolved *)
Resolve(networkName) ==
    /\ resolution.provider \in Providers
    /\ \A k \in resolution.keys : k[1] # networkName
    /\ resolution' = [resolution EXCEPT !.keys = @ \cup
          {<<networkName,
             ProviderKey(resolution.provider, networkName, resolution.tvlData)>>}]
    /\ UNCHANGED <<entityVars, providerVars, client, call, appVars>>

NextResolve ==
    \/ \E provider \in Providers, tvlData \in SUBSET RegistryNames :
          StartResolving(provider, tvlData)
    \/ \E networkName \in ResolveNames : Resolve(networkName)

SpecResolve == Init /\ [][NextResolve]_vars

----------------------------------------------------------------------------
(* The liquidity of a chain: direct aggregation, then the search fallback *)

(* A provider call that returned null or rejected (no list of pairs) *)
Failed == <<-1>>

RECURSIVE Sum(_)
Sum(seq) == IF seq = << >> THEN 0 ELSE Head(seq) + Sum(Tail(seq))

(* k pairs of liquidity a followed by m pairs of liquidity b; a pair      *)
(* without liquidity.usd counts 0                                         *)
Pairs(k, a, m, b) == [i \in 1..(k + m) |-> IF i <= k THEN a ELSE b]

MaxPairs == 10
MaxTail == 2
MaxUsd == 2

(* The pair lists a search may return, and the direct ones *)
SearchResults ==
    {Failed} \cup {Pairs(k, a, m, b) : k \in 0..MaxPairs, a \in 0..MaxUsd,
                                        m \in 0..MaxTail, b \in 0..MaxUsd}
DirectResults == {Failed, << >>, <<0>>, <<2>>, <<1, 2>>}

(* fetchChainTotalLiquidity: null, or the sum over all pairs *)
fetchChainTotalLiquidity(direct) ==
    IF direct = Failed THEN Null
    ELSE [totalLiquidity |-> Sum(direct), pairCount |-> Len(direct)]

(* searchResult.pairs.slice(0, 10) *)
slice(pairs, n) == SubSeq(pairs, 1, IF Len(pairs) < n THEN Len(pairs) ELSE n)

(* dexscreenerPromise of StatsCard and the dexscreener branch of the      *)
(* warm-up: the direct total if positive, else the search fallback        *)
dexscreenerPromise(direct, search) ==
    LET liquidityData == fetchChainTotalLiquidity(direct)
        totalLiquidity == IF search = Failed THEN 0
                          ELSE Sum(slice(search, SEARCH_PAIRS))
    IN  IF liquidityData # Null /\ liquidityData.totalLiquidity > 0
        THEN [searched |-> FALSE, ret |-> liquidityData]
        ELSE IF search # Failed /\ Len(search) > 0 /\ totalLiquidity > 0
        THEN [searched |-> TRUE,
              ret |-> [totalLiquidity |-> totalLiquidity, pairCount |-> Len(search)]]
        ELSE [searched |-> TRUE, ret |-> Null]

(* The liquidity of a chain is asked for *)
FetchLiquidity(direct, search) ==
    /\ call = NoCallYet
    /\ call' = [fn |-> "dexscreenerPromise", direct |-> direct, search |-> search,
                searched |-> dexscreenerPromise(direct, search).searched,
                ret |-> dexscreenerPromise(direct, search).ret]
    /\ UNCHANGED <<entityVars, providerVars, client, resolution, appVars>>

NextLiquidity ==
    \E direct \in DirectResults, search \in SearchResults : FetchLiquidity(direct, search)

SpecLiquidity == Init /\ [][NextLiquidity]_vars

----------------------------------------------------------------------------
(* The numeric fields of the provider results *)

(* JavaScript values of a numeric field: a number, NaN, Infinity, or an   *)
(* absent field (undefined), or null                                      *)
Num(n) == <<"number", n>>
NaN == <<"NaN", 0>>
Infinity == <<"Infinity", 0>>
Missing == <<"undefined", 0>>
JsNull == <<"null", 0>>

(* A result that is null as a whole *)
NoResult == [null |-> TRUE]

IsNum(v) == v[1] = "number"

(* parseInt(v): NaN for an absent field *)
parseInt(v) == IF IsNum(v) THEN v ELSE NaN

(* a - b, a + b, a * b, a / b on JavaScript numbers; the quotient is      *)
(* rounded towards minus infinity here                                    *)
Minus(a, b) == IF IsNum(a) /\ IsNum(b) THEN Num(a[2] - b[2]) ELSE NaN
Plus(a, b) == IF IsNum(a) /\ IsNum(b) THEN Num(a[2] + b[2]) ELSE NaN
Times(a, b) == IF IsNum(a) /\ IsNum(b) THEN Num(a[2] * b[2]) ELSE NaN
Div(a, b) ==
    IF ~IsNum(a) \/ ~IsNum(b) THEN NaN
    ELSE IF b[2] = 0 THEN (IF a[2] = 0 THEN NaN ELSE Infinity)
    ELSE Num(a[2] \div b[2])

(* v || 0 *)
OrZero(v) == IF IsNum(v) /\ v[2] # 0 THEN v ELSE Num(0)

(* v > 0: false for NaN and undefined *)
Positive(v) == IsNum(v) /\ v[2] > 0

(* fetchFearGreedIndex, from the value fields of data.data (newest first) *)
FearGreedResult(data) ==
    IF Len(data) = 0 THEN NoResult
    ELSE LET current == data[1]
             previous == IF Len(data) > 1 THEN data[2] ELSE JsNull
             weekAgo == IF Len(data) >= 7 THEN data[7] ELSE JsNull
         IN  [value |-> parseInt(current),
              previousValue |-> IF previous # JsNull THEN parseInt(previous) ELSE JsNull,
              weekAgoValue |-> IF weekAgo # JsNull THEN parseInt(weekAgo) ELSE JsNull,
              change24h |-> IF previous # JsNull
                            THEN Minus(parseInt(current), parseInt(previous)) ELSE JsNull,
              change7d |-> IF weekAgo # JsNull
                           THEN Minus(parseInt(current), parseInt(weekAgo)) ELSE JsNull]

(* fetchChainHistoricalTVL, from the tvl fields of the series (oldest     *)
(* first)                                                                 *)
HistoricalTVLResult(data) ==
    IF Len(data) = 0 THEN NoResult
    ELSE LET latest == data[Len(data)]
             dayAgo == IF Len(data) > 1 THEN data[Len(data) - 1] ELSE latest
             weekAgo == IF Len(data) > 7 THEN data[Len(data) - 7] ELSE latest
         IN  [currentTVL |-> OrZero(latest),
              change1d |-> Times(Div(Minus(latest, dayAgo), dayAgo), Num(100)),
              change7d |-> Times(Div(Minus(latest, weekAgo), weekAgo), Num(100))]

(* The day series the sentiment provider may return: 0, 1, 2 or 7 entries *)
SentimentValues == {Missing, Num(20), Num(50)}
SentimentSeries ==
    {<< >>} \cup [1..1 -> SentimentValues] \cup [1..2 -> SentimentValues]
            \cup [1..7 -> SentimentValues]

(* The TVL series: 0, 1 or 2 points, or 8 of which the week-old and the   *)
(* two newest vary                                                        *)
TvlValues == {Missing, Num(0), Num(100), Num(200)}
TvlSeries ==
    {<< >>} \cup [1..1 -> TvlValues] \cup [1..2 -> TvlValues]
            \cup {<<w, Num(100), Num(100), Num(100), Num(100), Num(100), d, l>> :
                      w \in TvlValues, d \in TvlValues, l \in TvlValues}

fetchFearGreedResult(data) ==
    /\ call = NoCallYet
    /\ call' = [fn |-> "fetchFearGreedIndex", data |-> data, ret |-> FearGreedResult(data)]
    /\ UNCHANGED <<entityVars, providerVars, client, resolution, appVars>>

fetchChainHistoricalTVL(data) ==
    /\ call = NoCallYet
    /\ call' = [fn |-> "fetchChainHistoricalTVL", data |-> data,
                ret |-> HistoricalTVLResult(data)]
    /\ UNCHANGED <<entityVars, providerVars, client, resolution, appVars>>

NextNumeric ==
    \/ \E data \in SentimentSeries : fetchFearGreedResult(data)
    \/ \E data \in TvlSeries : fetchChainHistoricalTVL(data)

SpecNumeric == Init /\ [][NextNumeric]_vars

----------------------------------------------------------------------------
(* The registry's protocol list counted per chain *)

(* Object.keys(CHAIN_NAME_MAP), in the order of the literal: the entries   *)
(* the model keeps                                                         *)
ChainMapKeys == <<"Ethereum", "BSC", "Cosmos">>

(* The longest protocol list and the longest list of chains of a protocol *)
MaxProtocols == 2
MaxChains == 2

(* The chains a protocol may list: a registry name of the map that is no  *)
(* key, a key of the map that is no registry name, a chain the map does    *)
(* not have                                                                *)
ProtocolChains == {"CosmosHub", "Cosmos", "Linea"}

ChainArrays == UNION {[1..n -> ProtocolChains] : n \in 0..MaxChains}

(* A protocol of the list: its chains field is an array or is not *)
Protocols ==
    {[array |-> FALSE, chains |-> << >>]}
        \cup {[array |-> TRUE, chains |-> chains] : chains \in ChainArrays}

ProtocolLists == UNION {[1..n -> Protocols] : n \in 0..MaxProtocols}

(* What the request of /protocols meets: it throws or the status is not   *)
(* OK, the body is no array, the body is a protocol list                   *)
ProtocolBodies ==
    {[kind |-> "error", protocols |-> << >>], [kind |-> "object", protocols |-> << >>]}
        \cup {[kind |-> "array", protocols |-> protocols] : protocols \in ProtocolLists}

(* {} *)
NoCounts == [key \in {} |-> 0]

(* counts[key] = (counts[key] || 0) + 1 *)
Increment(counts, key) ==
    IF key \in DOMAIN counts THEN [counts EXCEPT ![key] = @ + 1]
    ELSE [k \in DOMAIN counts \cup {key} |-> IF k = key THEN 1 ELSE counts[k]]

(* Object.keys(CHAIN_NAME_MAP).find(key => ...defillamaName === chain) *)
RECURSIVE findKey(_, _)
findKey(keys, chain) ==
    IF keys = << >> THEN "undefined"
    ELSE IF CHAIN_NAME_MAP(Head(keys)).defillamaName = chain THEN Head(keys)
    ELSE findKey(Tail(keys), chain)

(* Variant: every chain is counted under the name the list gives it *)
countRawChain(chainProtocolCount, chain) == Increment(chainProtocolCount, chain)

(* The body of protocol.chains.forEach: a chain that is the registry name *)
(* of an entry is counted under the first key with that registry name,    *)
(* any other chain under its own name                                      *)
countChain(chainProtocolCount, chain) ==
    LET networkName == findKey(ChainMapKeys, chain)
    IN  IF networkName # "undefined" THEN Increment(chainProtocolCount, networkName)
        ELSE Increment(chainProtocolCount, chain)

RECURSIVE countChains(_, _)
countChains(chainProtocolCount, chains) ==
    IF chains = << >> THEN chainProtocolCount
    ELSE countChains(countChain(chainProtocolCount, Head(chains)), Tail(chains))

(* protocols.forEach: a protocol whose chains is no array counts nowhere *)
RECURSIVE countProtocols(_, _)
countProtocols(chainProtocolCount, protocols) ==
    IF protocols = << >> THEN chainProtocolCount
    ELSE countProtocols(IF Head(protocols).array
                        THEN countChains(chainProtocolCount, Head(protocols).chains)
                        ELSE chainProtocolCount,
                        Tail(protocols))

(* fetchProtocols: the counts it returns (the categories are left out) *)
fetchProtocolsResult(body) ==
    IF body.kind # "array" THEN [counts |-> NoCounts]
    ELSE [counts |-> countProtocols(NoCounts, body.protocols)]

fetchProtocols(body) ==
    /\ call = NoCallYet
    /\ call' = [fn |-> "fetchProtocols", data |-> body, ret |-> fetchProtocolsResult(body)]
    /\ UNCHANGED <<entityVars, providerVars, client, resolution, appVars>>

(* One response is counted in a behaviour *)
NextProtocols ==
    \E body \in IF call = NoCallYet THEN ProtocolBodies ELSE {} : fetchProtocols(body)

SpecProtocols == Init /\ [][NextProtocols]_vars

----------------------------------------------------------------------------
(* The registry's analytics of all entities of the map *)

(* The longest chain list of /v2/chains *)
MaxTvlChains == 2

(* A chain of the list: a name the registry may use and a tvl field that  *)
(* is absent, 0 or positive                                                *)
TvlChains == [name : {"Ethereum", "BNB Chain", "CosmosHub"},
              tvl : {Missing, Num(0), Num(3)}]

(* What the request of /v2/chains meets: it throws or the status is not   *)
(* OK, the body is no array, the body is a chain list                      *)
TvlBodies ==
    {[kind |-> "error", chains |-> << >>], [kind |-> "object", chains |-> << >>]}
        \cup {[kind |-> "array", chains |-> chains] :
                 chains \in UNION {[1..n -> TvlChains] : n \in 0..MaxTvlChains}}

(* data.forEach of fetchChainTVL: tvlMap[chain.name] = {tvl: chain.tvl || 0} *)
(* for the chains with a tvl field, a later chain replacing an earlier one  *)
RECURSIVE tvlMap(_)
tvlMap(chains) ==
    IF chains = << >> THEN NoCounts
    ELSE LET chain == chains[Len(chains)]
             before == tvlMap(SubSeq(chains, 1, Len(chains) - 1))
         IN  IF chain.tvl = Missing THEN before
             ELSE [name \in DOMAIN before \cup {chain.name} |->
                      IF name = chain.name THEN OrZero(chain.tvl)[2] ELSE before[name]]

(* fetchChainTVL: the map of chain names to tvl, {} when the request fails *)
fetchChainTVLResult(body) ==
    IF body.kind # "array" THEN NoCounts ELSE tvlMap(body.chains)

(* chainData?.tvl || 0 for chainData = tvlData[name] *)
tvlOf(tvlData, name) == IF name \in DOMAIN tvlData THEN tvlData[name] ELSE 0

RECURSIVE totalTVL(_, _)
totalTVL(tvlData, networks) ==
    IF networks = << >> THEN 0
    ELSE tvlOf(tvlData, CHAIN_NAME_MAP(Head(networks)).defillamaName)
             + totalTVL(tvlData, Tail(networks))

(* Variant: the share is the quotient whatever the total *)
percentageUnguarded(tvl, total) == Div(Times(Num(tvl), Num(100)), Num(total))

(* totalTVL > 0 ? (tvl / totalTVL) * 100 : 0, in whole percents here *)
percentage(tvl, total) ==
    IF total > 0 THEN Div(Times(Num(tvl), Num(100)), Num(total)) ELSE Num(0)

(* calculateMarketShare(tvlData) over the keys of CHAIN_NAME_MAP *)
calculateMarketShare(tvlData) ==
    [networkName \in {ChainMapKeys[i] : i \in DOMAIN ChainMapKeys} |->
        LET tvl == tvlOf(tvlData, CHAIN_NAME_MAP(networkName).defillamaName)
        IN  [percentage |-> percentage(tvl, totalTVL(tvlData, ChainMapKeys)), tvl |-> tvl]]

(* 'N/A', and formatCount(num) below a thousand: `${Math.round(num)}+` *)
NotAvailable == [suffix |-> "N/A", num |-> 0]
formatCount(num) == [suffix |-> "+", num |-> num]

(* fetchAllNetworkAnalytics from what its two fetches returned: per key   *)
(* of the map the tvl under the key, the registry name or the first       *)
(* alternative name, the count under the key or the registry name, the    *)
(* share (the formatted tvl and share, logo and geckoId are left out)      *)
analytics(tvlData, protocolData) ==
    LET protocolCounts == protocolData.counts
        marketShare == calculateMarketShare(tvlData)
        countOf(name) == IF name \in DOMAIN protocolCounts THEN protocolCounts[name] ELSE 0
    IN  [networkName \in {ChainMapKeys[i] : i \in DOMAIN ChainMapKeys} |->
            LET chainInfo == CHAIN_NAME_MAP(networkName)
                altName == FirstAltName(chainInfo.altNames, DOMAIN tvlData)
                tvl == IF networkName \in DOMAIN tvlData THEN tvlData[networkName]
                       ELSE IF chainInfo.defillamaName \in DOMAIN tvlData
                            THEN tvlData[chainInfo.defillamaName]
                       ELSE IF altName # "-" THEN tvlData[altName]
                       ELSE 0
                dappCount == IF countOf(networkName) # 0 THEN countOf(networkName)
                             ELSE countOf(chainInfo.defillamaName)
            IN  [tvl |-> tvl,
                 dapps |-> IF dappCount > 0 THEN formatCount(dappCount) ELSE NotAvailable,
                 dappCount |-> dappCount,
                 marketShare |-> marketShare[networkName].percentage]]

(* The protocol responses the analytics are computed from *)
AnalyticsProtocolBodies == {body \in ProtocolBodies : Len(body.protocols) <= 1}

fetchAllNetworkAnalytics(tvlBody, protocolBody) ==
    /\ call = NoCallYet
    /\ call' = [fn |-> "fetchAllNetworkAnalytics",
                data |-> [tvl |-> tvlBody, protocols |-> protocolBody],
                ret |-> analytics(fetchChainTVLResult(tvlBody),
                                  fetchProtocolsResult(protocolBody))]
    /\ UNCHANGED <<entityVars, providerVars, client, resolution, appVars>>

NextAnalytics ==
    \E tvlBody \in IF call = NoCallYet THEN TvlBodies ELSE {},
       protocolBody \in AnalyticsProtocolBodies :
          fetchAllNetworkAnalytics(tvlBody, protocolBody)

SpecAnalytics == Init /\ [][NextAnalytics]_vars

----------------------------------------------------------------------------
(* App's effect on selectedNetwork that computes the dApp nodes *)

(* computeDappNodes(network, protocols): [] for an empty list, else the   *)
(* nodes laid out around the network; `of` records who computed them      *)
computeDappNodes(e, protocols) ==
    [of |-> e, nodes |-> IF protocols = "[]" THEN "[]" ELSE "nodes"]

(* cached?.detailedData?.topProtocols of the entry stored for e *)
topProtocols(cached) ==
    IF cached.obj = 0 THEN "undefined"
    ELSE IF cached.data["detailedData"].kind = "detailedData" THEN "protocols"
    ELSE IF cached.data["detailedData"] = MinimalDetails THEN "[]"
    ELSE "undefined"

(* Variant: a cleanup that leaves the flag of the earlier run alone *)
cancelNothing(q) == q

(* return () => { cancelled = true; }: the cleanup of the effect's run *)
cancel(q) == [q EXCEPT !.cancelled = TRUE]

(* setSelectedNetwork(e), e a network or null: the cleanup of the earlier *)
(* run, then the effect's body                                            *)
setSelectedNetwork(e) ==
    /\ e # network
    /\ selections < MaxSelections
    /\ network' = e
    /\ selections' = selections + 1
    /\ LET earlier == {cancel(q) : q \in dappFetches} IN
       IF e = NoNetwork
       THEN /\ dappNodes' = NoNodes
            /\ dappFetches' = earlier
       ELSE IF topProtocols(networkDataCache[e]) = "protocols"
       THEN /\ dappNodes' = computeDappNodes(e, "protocols")
            /\ dappFetches' = earlier
       ELSE /\ dappNodes' = dappNodes
            /\ dappFetches' = earlier \cup
                  {[net |-> e, started |-> selections + 1, cancelled |-> FALSE,
                    settledAt |-> 0]}
    /\ UNCHANGED <<providerVars, client, resolution, call, mountVars, probe>>
    /\ UNCHANGED <<NETWORKS, now, networkDataCache, refreshes, launched, card, loading,
                   prefetch, lastRet>>

(* import('./services/defillama').then(fetchNetworkDetails).then(...)      *)
(* .catch(...) of the run that started q: the details carry protocols, or  *)
(* are the minimal details, or the import rejects                          *)
FetchedDetails(q, outcome) ==
    /\ q.settledAt = 0
    /\ dappFetches' = (dappFetches \ {q}) \cup {[q EXCEPT !.settledAt = selections]}
    /\ dappNodes' = IF q.cancelled THEN dappNodes
                    ELSE IF outcome = "rejects" THEN NoNodes
                    ELSE computeDappNodes(q.net, outcome)
    /\ UNCHANGED <<entityVars, providerVars, client, resolution, call, selections,
                   mountVars, probe>>

(* SpecDapp follows App's effect while the warm-up fills the cache, the    *)
(* registry call of an entry succeeding or failing                         *)
NextDapp ==
    \/ StartPreFetch
    \/ \E i \in DOMAIN prefetch : WarmLaunch(i, FALSE)
    \/ \E r \in refreshes, F \in SUBSET {"detailedData"} :
          SettleProvider(r, r.pending, F)
    \/ \E r \in refreshes : CompleteWarm(r)
    \/ \E e \in Names \cup {NoNetwork} : setSelectedNetwork(e)
    \/ \E q \in dappFetches, outcome \in {"protocols", "[]", "rejects"} :
          FetchedDetails(q, outcome)

SpecDapp == Init /\ [][NextDapp]_vars

----------------------------------------------------------------------------
(* test-api.js: the probe of the registry's endpoints *)

(* What the request of testEndpoint meets: fetch rejects, the status is   *)
(* not OK, the status is OK and the body does not parse, or it parses to  *)
(* an object, an empty array, a non-empty array                            *)
ProbeOutcomes == {"transport", "status", "malformed", "object", "[]", "array"}

(* testEndpoint(baseUrl, endpoint): `const url` is declared in the try    *)
(* block, so the `url` of the object the catch block builds is not in     *)
(* scope: building it throws a ReferenceError out of the function          *)
testEndpoint(outcome) ==
    CASE outcome \in {"transport", "malformed"} ->
            [settled |-> "throws", met |-> outcome, success |-> FALSE, has |-> {}]
      [] outcome = "status" ->
            [settled |-> "returns", met |-> outcome, success |-> FALSE,
             has |-> {"success", "status", "text", "url"}]
      [] OTHER ->
            [settled |-> "returns", met |-> outcome, success |-> TRUE,
             has |-> {"success", "data", "url", "status"}]

(* result.success && Array.isArray(data) && data.length > 0 *)
FoundArray(result) == result.settled = "returns" /\ result.success /\ result.met = "array"

(* The loops' next place after (baseUrl, endpoint) of a list of endpoints *)
(* when the inner loop runs on, and when it is left                        *)
NextEndpoint(baseUrl, endpoint, list) ==
    IF endpoint < Len(list) THEN <<baseUrl, endpoint + 1>> ELSE <<baseUrl + 1, 1>>
NextBaseUrl(baseUrl) == <<baseUrl + 1, 1>>

(* One turn of the loop over the chain endpoints (42-84): an endpoint     *)
(* with a non-empty array becomes workingEndpoint and ends both loops; a  *)
(* rejected testEndpoint rejects testAPI                                   *)
ProbeChains(outcome) ==
    /\ probe.phase = "chains"
    /\ LET result == testEndpoint(outcome)
           place == NextEndpoint(probe.baseUrl, probe.endpoint, endpoints)
           over == FoundArray(result) \/ place[1] > Len(BASE_URLS)
       IN  probe' =
             [phase |-> IF result.settled = "throws" THEN "rejected"
                        ELSE IF over THEN "protocols" ELSE "chains",
              baseUrl |-> IF result.settled = "throws" THEN probe.baseUrl
                          ELSE IF over THEN 1 ELSE place[1],
              endpoint |-> IF result.settled = "throws" THEN probe.endpoint
                           ELSE IF over THEN 1 ELSE place[2],
              result |-> result,
              probed |-> Append(probe.probed,
                                [baseUrl |-> probe.baseUrl, endpoint |-> probe.endpoint,
                                 found |-> FoundArray(result)]),
              workingEndpoint |-> IF FoundArray(result)
                                  THEN <<probe.baseUrl, probe.endpoint>>
                                  ELSE probe.workingEndpoint]
    /\ UNCHANGED <<entityVars, providerVars, client, resolution, call, dappVars, mountVars>>

(* One turn of the loop over the protocol endpoints (94-124): a non-empty *)
(* array ends the inner loop only; after the loops comes the summary      *)
ProbeProtocols(outcome) ==
    /\ probe.phase = "protocols"
    /\ LET result == testEndpoint(outcome)
           place == IF FoundArray(result) THEN NextBaseUrl(probe.baseUrl)
                    ELSE NextEndpoint(probe.baseUrl, probe.endpoint, protocolEndpoints)
           over == place[1] > Len(BASE_URLS)
       IN  probe' =
             [probe EXCEPT
                !.phase = IF result.settled = "throws" THEN "rejected"
                          ELSE IF over THEN "summary" ELSE "protocols",
                !.baseUrl = IF result.settled = "throws" \/ over THEN @ ELSE place[1],
                !.endpoint = IF result.settled = "throws" \/ over THEN @ ELSE place[2],
                !.result = result]
    /\ UNCHANGED <<entityVars, providerVars, client, resolution, call, dappVars, mountVars>>

NextProbe ==
    \/ \E outcome \in ProbeOutcomes : ProbeChains(outcome)
    \/ \E outcome \in ProbeOutcomes : ProbeProtocols(outcome)

SpecProbe == Init /\ [][NextProbe]_vars

-----------------------------------------------------------------------------
(* Properties of the entity snapshot cache *)

(* C1: request coalescing. For every entity at most one refresh is in      *)
(* flight at any time: a request arriving while a refresh for the entity   *)
(* is in flight starts no second set of provider calls.                    *)
C1_RequestCoalescing ==
    \A r1, r2 \in refreshes : r1.net = r2.net => r1 = r2

(* C2: cache-hit idempotence. When the request before the latest one       *)
(* returned a snapshot and the latest request was made less than           *)
(* CACHE_MAX_AGE after that snapshot's fetchedAt (the earlier request was, *)
(* too: a hit is younger than CACHE_MAX_AGE and a refresh is stamped when  *)
(* it returns), both returned the identical snapshot object.               *)
C2_CacheHitIdempotence ==
    \A e \in Names :
        (/\ lastRet[e].prevObj # 0
         /\ lastRet[e].reqAt < lastRet[e].prevAt + CACHE_MAX_AGE)
        => lastRet[e].obj = lastRet[e].prevObj

(* C3: when a request returned snapshot s1 and a later request is made at  *)
(* a time when s1 is stale (now - s1.fetchedAt >= CACHE_MAX_AGE), the      *)
(* later request returns a snapshot of strictly greater fetchedAt.         *)
C3_StaleRequestReturnsNewer ==
    \A e \in Names :
        (/\ lastRet[e].prevObj # 0
         /\ lastRet[e].reqAt - lastRet[e].prevAt >= CACHE_MAX_AGE)
        => lastRet[e].fetchedAt > lastRet[e].prevAt

C3_Witness ==
    \E e \in Names :
        /\ lastRet[e].prevObj # 0
        /\ lastRet[e].reqAt - lastRet[e].prevAt >= CACHE_MAX_AGE
        /\ lastRet[e].obj # lastRet[e].prevObj

(* C4: monotonic freshness. No write replaces an entity's snapshot with    *)
(* one of smaller fetchedAt, and no request returns a snapshot older than  *)
(* the one the request before it returned.                                 *)
C4_MonotonicFreshness ==
    [][\A e \in Names :
          /\ networkDataCache'[e].fetchedAt >= networkDataCache[e].fetchedAt
          /\ lastRet'[e].fetchedAt >= lastRet[e].fetchedAt]_vars

(* A refresh launched while the entity already had a snapshot replaced it, *)
(* and a request had returned the older one before                         *)
C4_Witness ==
    \E e \in Names :
        /\ lastRet[e].prevObj # 0
        /\ lastRet[e].obj # lastRet[e].prevObj
        /\ lastRet[e].fetchedAt > lastRet[e].prevAt
        /\ networkDataCache[e].obj = lastRet[e].obj

(* The defaults the specification documents for a provider that failed:   *)
(* a details record of TVL 0, stablecoin 0, an empty list of top yields,  *)
(* and null for price, history, liquidity, yield stats and sentiment.     *)
DocumentedDefault(f) ==
    CASE f = "detailedData" -> MinimalDetails
      [] f = "stablecoinData" -> Zero
      [] f = "topYields" -> EmptyList
      [] OTHER -> Null

(* C5: all-settled composition. Whatever subset of its provider calls     *)
(* failed, an invocation whose calls have all settled stores a snapshot,  *)
(* stamped with the time of the write, in which each provider that        *)
(* succeeded contributes its own result for the entity and each provider  *)
(* that failed contributes its documented default (a call that was not    *)
(* issued contributes null).                                              *)
C5_AllSettledComposition ==
    [][\A r \in refreshes :
          (r.pending = {} /\ r \notin refreshes') =>
             LET s == networkDataCache'[r.net] IN
             /\ s.obj = r.id
             /\ s.fetchedAt = now
             /\ \A f \in Fields :
                   s.data[f] = IF f \notin ProviderCalls(r.net) THEN Null
                               ELSE IF f \in r.fails THEN DocumentedDefault(f)
                               ELSE Payload(f, r.net)]_vars

(* Only the registry and the market-data provider succeeded *)
C5_Witness ==
    \E e \in Names :
        LET s == networkDataCache[e] IN
        /\ s.obj # 0
        /\ s.data["detailedData"] = Payload("detailedData", e)
        /\ s.data["priceData"] = Payload("priceData", e)
        /\ e \in WithGeckoId
        /\ s.data["historicalData"] = Payload("historicalData", e)
        /\ s.data["dexScreenerData"] = Null
        /\ s.data["stablecoinData"] = Zero
        /\ s.data["yieldData"] = Null
        /\ s.data["topYields"] = EmptyList
        /\ s.data["fearGreedData"] = Null

(* TVL = 0, price = null, liquidity = null, stablecoin = 0, yields = null, *)
(* sentiment = null                                                        *)
AllDefaults(data) ==
    /\ data["detailedData"] = MinimalDetails
    /\ data["priceData"] = Null
    /\ data["dexScreenerData"] = Null
    /\ data["stablecoinData"] = Zero
    /\ data["yieldData"] = Null
    /\ data["fearGreedData"] = Null

(* C6: when every provider call of a request failed, the request still    *)
(* yields a complete snapshot of the documented defaults, in the cache    *)
(* and, for an on-demand request, on the card.                            *)
C6_AllProvidersFail ==
    [][\A r \in refreshes :
          (r.pending = {} /\ r.fails = ProviderCalls(r.net) /\ r \notin refreshes') =>
             /\ networkDataCache'[r.net].obj = r.id
             /\ AllDefaults(networkDataCache'[r.net].data)
             /\ r.kind = "ondemand" =>
                   (card'.obj = r.id /\ AllDefaults(card'.data))]_vars

C6_Witness ==
    \E e \in Names :
        /\ networkDataCache[e].obj # 0
        /\ AllDefaults(networkDataCache[e].data)
        /\ card.obj = networkDataCache[e].obj
        /\ AllDefaults(card.data)

(* C7: join barrier. Neither the cache nor the card holds a snapshot of   *)
(* an invocation that still has a provider call pending, and no snapshot  *)
(* they hold lacks the value of a provider call.                          *)
C7_JoinBarrier ==
    /\ \A r \in refreshes :
          r.pending # {} =>
             /\ card.obj # r.id
             /\ \A e \in Names : networkDataCache[e].obj # r.id
    /\ \A f \in Fields :
          /\ card.data[f] # Undefined
          /\ \A e \in Names : networkDataCache[e].data[f] # Undefined

(* All provider calls of an invocation but one have settled, and nothing  *)
(* of it is in the cache                                                  *)
C7_Witness ==
    \E r \in refreshes :
        /\ Cardinality(r.pending) = 1
        /\ r.fails # {}
        /\ networkDataCache[r.net] = NoSnapshot
        /\ card = NoCard

C9_CacheLookup ==
    [][/\ (network' # network /\ network' # NoNetwork) =>
            LET cached == networkDataCache[network'] IN
            IF cached # NoSnapshot /\ now - cached.fetchedAt < CACHE_MAX_AGE
            THEN /\ card'.obj = cached.obj
                 /\ lastRet'[network'].obj = cached.obj
                 /\ refreshes' = refreshes
                 /\ networkDataCache' = networkDataCache
            ELSE \E r \in refreshes' \ refreshes :
                    r.net = network' /\ r.pending = ProviderCalls(network')
       /\ (card'.obj # card.obj /\ card'.obj # 0) =>
            networkDataCache'[card'.key].obj = card'.obj]_vars

(* A request was served the warm-up's snapshot from the cache, and a      *)
(* later one, made after it went stale, was delivered a refreshed one     *)
C9_Witness ==
    \E e \in Names :
        /\ lastRet[e].prevObj \in DOMAIN BASE_NETWORKS
        /\ lastRet[e].obj > Len(BASE_NETWORKS)
        /\ lastRet[e].reqAt - lastRet[e].prevAt >= CACHE_MAX_AGE
        /\ networkDataCache[e].obj = lastRet[e].obj
        /\ card.obj = lastRet[e].obj

----------------------------------------------------------------------------
(* Properties of the provider clients' caches *)

(* The cache, its time and the lifetime the specification gives for it *)
StoredPayload(api) ==
    CASE api = "yields" -> poolsCache
      [] api = "stablecoins" -> stablecoinChainsCache
      [] api = "feargreed" -> fngCache

StoredTime(api) ==
    CASE api = "yields" -> poolsCacheTime
      [] api = "stablecoins" -> stablecoinCacheTime
      [] api = "feargreed" -> fngCacheTime

DocumentedTTL(api) ==
    CASE api = "yields" -> 5
      [] api = "stablecoins" -> 5
      [] api = "feargreed" -> 10
      [] api = "chains" -> 5

(* C10: per-provider cache hit rule. A bulk fetch call of the yield-pool, *)
(* stablecoin-chain or sentiment client returns the cached payload and    *)
(* issues no network request if and only if a payload is stored and       *)
(* now - cacheTime is below the lifetime (5, 5 and 10 minutes); otherwise *)
(* it issues one network request.                                         *)
C10_ProviderCacheHitRule ==
    [][(/\ lastCall'.api \in {"yields", "stablecoins", "feargreed"}
        /\ (lastCall' # lastCall \/ fetches' \ fetches # {})) =>
          LET api == lastCall'.api
              fresh == /\ StoredPayload(api) # NoPayload
                       /\ now - StoredTime(api) < DocumentedTTL(api)
          IN  IF fresh
              THEN /\ lastCall'.hit
                   /\ lastCall'.ret = StoredPayload(api)
                   /\ fetches' = fetches
                   /\ requested' = requested
              ELSE /\ ~lastCall'.hit
                   /\ requested' = requested + 1
                   /\ \E q \in fetches' : fetches' = fetches \cup {q}
                         /\ q \notin fetches /\ q.api = api]_vars

(* The sentiment client answered from its cache when the payload was      *)
(* older than the 5 minutes of the other two caches, after a first        *)
(* request had filled it                                                  *)
C10_Witness ==
    /\ lastCall.api = "feargreed"
    /\ lastCall.hit
    /\ lastCall.ret = fngCache
    /\ lastCall.at - fngCacheTime >= YIELDS_CACHE_TTL
    /\ requested = 1

(* C11: on a miss of a provider cache the outcome of the bulk fetch is    *)
(* stored with a new timestamp unconditionally, also when the fetch       *)
(* failed or brought an empty payload: when the bulk fetch of a cached    *)
(* provider completes, a payload is stored under the time of that call,   *)
(* so that the next call within the lifetime is a hit.                    *)
C11_StoreOnEveryMiss ==
    [][\A q \in fetches \ fetches' :
          q.api \in {"yields", "stablecoins", "feargreed"} =>
             /\ StoredPayload(q.api)' # NoPayload
             /\ StoredTime(q.api)' >= q.now]_vars

(* C12: bulk cache reuse. Within one lifetime window at most one bulk     *)
(* download is issued per bulk provider, however many calls are made and  *)
(* however they interleave: any two downloads of one provider lie at      *)
(* least a lifetime apart.                                                *)
C12_BulkCacheReuse ==
    \A d1, d2 \in downloads :
        (d1.api = d2.api /\ d1 # d2 /\ d1.now <= d2.now)
        => d2.now - d1.now >= DocumentedTTL(d1.api)

----------------------------------------------------------------------------
(* Properties of the provider client calls *)

C15_NoRequestTwice ==
    \A i, j \in DOMAIN client.sent :
        client.sent[i] = client.sent[j] => i = j

----------------------------------------------------------------------------
(* Properties of the warm-up *)

(* C16: warm-up failure isolation. When the warm-up of one roster entity  *)
(* throws, no other entry is affected by it (its state and its provider   *)
(* calls stay as they were); every entry that completes has stored its    *)
(* snapshot; and the warm-up as a whole completes: every entry ends       *)
(* stored or failed, and only entries that threw themselves end failed.   *)
C16_WarmupIsolation ==
    /\ [][\A i \in DOMAIN prefetch :
             (prefetch[i] # "failed" /\ prefetch'[i] = "failed")
             => /\ \A j \in DOMAIN prefetch \ {i} : prefetch'[j] = prefetch[j]
                /\ refreshes' = refreshes
                /\ networkDataCache' = networkDataCache]_vars
    /\ [](\A i \in DOMAIN prefetch :
             prefetch[i] = "done" => networkDataCache[NETWORKS[i]] # NoSnapshot)
    /\ <>WarmSettled

(* The first entry threw and the second one stored its snapshot *)
C16_Witness ==
    /\ prefetch # << >>
    /\ prefetch[1] = "failed"
    /\ prefetch[2] = "done"
    /\ networkDataCache[NETWORKS[1]] = NoSnapshot
    /\ networkDataCache[NETWORKS[2]] # NoSnapshot

(* C17: once an entity's snapshot is stored, nothing launches provider    *)
(* calls for that entity while the snapshot is less than 5 minutes old:   *)
(* an on-demand request is a cache hit, and the warm-up goes through the  *)
(* cache too.                                                             *)
C17_NoProviderCallsWhileFresh ==
    [][\A r \in refreshes' \ refreshes :
          ~isCacheValid(networkDataCache[r.net], now)]_vars

(* C18: the warm-up is started once, and only when roster discovery has   *)
(* finished, so it has an entry for every entity of the roster, the       *)
(* static ones and the discovered ones.                                   *)
C18_WarmupCoversRoster ==
    prefetch # << >> => DOMAIN prefetch = DOMAIN NETWORKS

(* C19: warm-up staggering. The entries launch in roster order: when      *)
(* entry i launches (its timer of i * 50 ms fires), every entry before it *)
(* has launched already.                                                  *)
C19_StaggeredLaunch ==
    [][\A i \in DOMAIN prefetch :
          (prefetch[i] = "timer" /\ prefetch'[i] # "timer")
          => \A j \in DOMAIN prefetch : j < i => prefetch[j] # "timer"]_vars

(* The second entry has launched, after the first *)
C19_Witness ==
    /\ prefetch # << >>
    /\ prefetch[1] # "timer"
    /\ prefetch[2] = "running"

----------------------------------------------------------------------------
(* Properties of the name resolution *)

(* C20: identity resolution of aliases. For every provider, "BSC" and     *)
(* "BNB Chain" resolve to the same provider key (registry chain name,     *)
(* coin id, liquidity chain id).                                          *)
C20_AliasesResolveAlike ==
    \A a, b \in resolution.keys :
        (a[1] \in {"BSC", "BNB Chain"} /\ b[1] \in {"BSC", "BNB Chain"})
        => a[2] = b[2]

(* The name has an explicit mapping for the resolver *)
Mapped(provider, name) ==
    CASE provider \in {"defillama", "defillama/protocols"} -> CHAIN_NAME_MAP(name) # NoEntry
      [] provider = "coingecko" -> COINGECKO_IDS(name) # "undefined"
      [] provider = "dexscreener" -> DEXSCREENER_CHAIN_MAP(name) # "undefined"

(* The keys of the chain list equal to one of the names, ignoring case *)
Matches(names, tvlData) ==
    {key \in tvlData : \E n \in names : toLowerCase(key) = toLowerCase(n)}

C22_ResolutionPriority ==
    resolution.provider \in {"defillama", "defillama/protocols"} =>
       \A k \in resolution.keys :
          IF Mapped(resolution.provider, k[1])
          THEN k[2] = CHAIN_NAME_MAP(k[1]).defillamaName
          ELSE IF Matches({k[1]}, resolution.tvlData) # {}
          THEN k[2] \in Matches({k[1]}, resolution.tvlData)
          ELSE k[2] = k[1]

(* C22, amended: fetchChainProtocols follows the three rules as stated.   *)
(* fetchNetworkDetails looks the chain up in the registry's list: (1)     *)
(* under the name or the mapping's provider name, keeping the provider    *)
(* name, else under the first of the mapping's alternative names that the *)
(* list holds; (2) else under the list key equal, ignoring case, to the   *)
(* name or the provider name; (3) else it keeps the provider name, or the *)
(* name itself without a mapping. A lower rule applies only when every    *)
(* higher one finds nothing.                                              *)
C22_ResolutionPriorityWithAltNames ==
    /\ resolution.provider = "defillama/protocols" => C22_ResolutionPriority
    /\ resolution.provider = "defillama" =>
          \A k \in resolution.keys :
             LET name == k[1]
                 info == CHAIN_NAME_MAP(name)
                 own == IF Mapped("defillama", name) THEN info.defillamaName ELSE name
                 list == resolution.tvlData
                 alts == {i \in DOMAIN info.altNames : info.altNames[i] \in list}
             IN  IF name \in list \/ own \in list THEN k[2] = own
                 ELSE IF alts # {}
                 THEN \E i \in alts : /\ k[2] = info.altNames[i]
                                      /\ \A j \in alts : i <= j
                 ELSE IF Matches({name, own}, list) # {}
                 THEN k[2] \in Matches({name, own}, list)
                 ELSE k[2] = own

(* fetchNetworkDetails found the BNB chain under an alternative name *)
C22_Witness ==
    /\ resolution.provider = "defillama"
    /\ <<"BSC", "Binance">> \in resolution.keys

----------------------------------------------------------------------------
(* Properties of the provider results *)

(* The sum of the n largest elements of a sequence *)
RECURSIVE SumOfLargest(_, _)
SumOfLargest(seq, n) ==
    IF n = 0 \/ seq = << >> THEN 0
    ELSE LET i == CHOOSE i \in DOMAIN seq : \A j \in DOMAIN seq : seq[j] <= seq[i]
             rest == [j \in 1..(Len(seq) - 1) |-> IF j < i THEN seq[j] ELSE seq[j + 1]]
         IN  seq[i] + SumOfLargest(rest, n - 1)

(* C23: liquidity two-tier strategy. The direct aggregation is used iff   *)
(* it succeeded with a total above 0; the search is issued iff it failed  *)
(* or gave zero; the fallback total is the sum of liquidity over the ten  *)
(* highest-liquidity matches, and the result is null when that sum is 0   *)
(* or the search fails.                                                   *)
C23_LiquidityTwoTier ==
    call.fn = "dexscreenerPromise" =>
       LET directOk == call.direct # Failed /\ Sum(call.direct) > 0
           top == IF call.search = Failed THEN 0
                  ELSE SumOfLargest(call.search, SEARCH_PAIRS)
       IN  /\ call.searched <=> ~directOk
           /\ directOk => call.ret = [totalLiquidity |-> Sum(call.direct),
                                      pairCount |-> Len(call.direct)]
           /\ (~directOk /\ top = 0) => call.ret = Null
           /\ (~directOk /\ top > 0) =>
                 /\ call.ret # Null
                 /\ call.ret.totalLiquidity = top

(* C24: numeric defaulting. Whatever fields the upstream response lacks,  *)
(* no numeric field of a provider result (sentiment value and changes,    *)
(* TVL and its change percentages) is NaN or undefined.                   *)
C24_NumericDefaulting ==
    (call.fn \in {"fetchFearGreedIndex", "fetchChainHistoricalTVL"} /\ call.ret # NoResult)
    => \A f \in DOMAIN call.ret : call.ret[f] \notin {NaN, Missing}

----------------------------------------------------------------------------
(* Properties of the roster *)

(* The names of a roster *)
RosterNames(roster) == {roster[i] : i \in DOMAIN roster}

(* C25: the roster is append-only. It always contains every static        *)
(* entity; every update keeps the roster it finds as a prefix; and a      *)
(* failed discovery leaves the roster as it was.                          *)
C25_RosterAppendOnly ==
    /\ [](Names \subseteq RosterNames(NETWORKS))
    /\ [][/\ Len(NETWORKS) <= Len(NETWORKS')
          /\ SubSeq(NETWORKS', 1, Len(NETWORKS)) = NETWORKS
          /\ (call'.fn = "loadAnalytics" /\ call'.data = FetchError)
             => NETWORKS' = NETWORKS]_vars

(* Discovery has appended two chains to the static roster *)
C25_Witness ==
    /\ call.fn = "loadAnalytics"
    /\ Len(NETWORKS) = Len(BASE_NETWORKS) + 2
    /\ SubSeq(NETWORKS, 1, Len(BASE_NETWORKS)) = BASE_NETWORKS

(* C26: roster discovery. The discovery call returns at most 20 chains,   *)
(* each with a TVL above $1M, in descending TVL order, and the empty list *)
(* on a fetch error; a chain it returned is in the roster afterwards iff  *)
(* it is a static entity or its TVL is above $100M, and the roster's      *)
(* names are pairwise distinct.                                           *)
C26_RosterDiscovery ==
    call.fn = "loadAnalytics" =>
       LET allChains == call.allChains IN
       /\ Len(allChains) <= TOP_CHAINS
       /\ \A i \in DOMAIN allChains :
             /\ allChains[i].tvl > SIGNIFICANT_TVL
             /\ \E j \in DOMAIN call.data : call.data[j] = allChains[i]
             /\ \A j \in DOMAIN allChains : i < j => allChains[i].tvl >= allChains[j].tvl
       /\ call.data = FetchError => allChains = << >>
       /\ \A i \in DOMAIN allChains :
             allChains[i].name \notin Names =>
                (allChains[i].name \in RosterNames(NETWORKS)
                 <=> allChains[i].tvl > ROSTER_TVL)
       /\ \A n \in RosterNames(NETWORKS) \ Names :
             \E i \in DOMAIN allChains : allChains[i].name = n
       /\ \A i, j \in DOMAIN NETWORKS : NETWORKS[i] = NETWORKS[j] => i = j

(* Discovery met more than twenty chains above $1M, a chain between the   *)
(* two thresholds and a static entity, and appended chains                *)
C26_Witness ==
    /\ call.fn = "loadAnalytics"
    /\ Len(call.data) > TOP_CHAINS
    /\ Len(call.allChains) = TOP_CHAINS
    /\ Len(NETWORKS) > Len(BASE_NETWORKS)
    /\ \E j \in DOMAIN call.data : call.data[j].tvl = SIGNIFICANT_TVL
    /\ \E j \in DOMAIN call.data : call.data[j].name \in Names

----------------------------------------------------------------------------
(* Properties of the snapshots and of the invocations *)

(* C27: snapshot immutability. A snapshot object in the cache keeps its   *)
(* fields for as long as it is there; a refresh puts a newly constructed  *)
(* object into the map, one that neither the cache nor the reader held    *)
(* before, and the reader's snapshot shows the same values afterwards.    *)
C27_SnapshotImmutable ==
    [][\A e \in Names :
          /\ networkDataCache'[e].obj = networkDataCache[e].obj
             => networkDataCache'[e] = networkDataCache[e]
          /\ networkDataCache'[e] # networkDataCache[e]
             => /\ \A x \in Names : networkDataCache'[e].obj # networkDataCache[x].obj
                /\ networkDataCache'[e].obj # card.obj
                /\ card'.obj = card.obj => card' = card]_vars

(* The reader holds a snapshot of an entity whose cache entry a refresh   *)
(* has replaced since                                                     *)
C27_Witness ==
    /\ card.obj # 0
    /\ card.key \in Names
    /\ networkDataCache[card.key].obj \notin {0, card.obj}
    /\ networkDataCache[card.key].fetchedAt > 0

(* The entities the cache holds an entry for *)
CachedNames == {e \in Names : networkDataCache[e] # NoSnapshot}

Stalled(i) ==
    /\ prefetch[i] = "running"
    /\ \E r \in refreshes : r.id = i /\ r.kind = "warmup" /\ r.hung # {}

(* C29: a provider call that never settles stalls only its own            *)
(* invocation. That invocation never writes a snapshot, and in the end    *)
(* every warm-up entry without a hanging call has completed, its          *)
(* snapshot stored.                                                       *)
C29_HangStallsOneInvocation ==
    /\ [](\A r \in refreshes : r.hung # {} =>
             \A e \in Names : networkDataCache[e].obj # r.id)
    /\ <>[](/\ prefetch # << >>
            /\ \A i \in DOMAIN prefetch :
                  \/ Stalled(i)
                  \/ prefetch[i] = "failed"
                  \/ /\ prefetch[i] = "done"
                     /\ networkDataCache[NETWORKS[i]].obj = i)

(* The first entry is stalled by a hanging call, its other calls settled, *)
(* and the second entry has stored its snapshot                           *)
C29_Witness ==
    /\ prefetch # << >>
    /\ Stalled(1)
    /\ \E r \in refreshes : r.id = 1 /\ r.pending = r.hung
    /\ networkDataCache[NETWORKS[1]] = NoSnapshot
    /\ prefetch[2] = "done"
    /\ networkDataCache[NETWORKS[2]].obj = 2

(* The on-demand refreshes in flight, by the number of their invocation *)
OnDemandInFlight == {r.id : r \in {q \in refreshes : q.kind = "ondemand"}}

(* C30: no cancellation. A change of the selection leaves every refresh   *)
(* in flight as it is; an on-demand refresh whose join is fulfilled ends  *)
(* by storing its snapshot under its own entity, whatever is selected     *)
(* then; and every on-demand refresh that has started ends.               *)
C30_NoCancellation ==
    /\ [][network' # network => refreshes \subseteq refreshes']_vars
    /\ [][\A r \in refreshes :
             (r.kind = "ondemand" /\ r.id \notin OnDemandInFlight' /\ Joined(r)) =>
                /\ networkDataCache'[r.net].obj = r.id
                /\ networkDataCache'[r.net].fetchedAt = now]_vars
    /\ \A i \in Len(BASE_NETWORKS) + 1 .. Len(BASE_NETWORKS) + MaxOnDemand :
          (i \in OnDemandInFlight) ~> (i \notin OnDemandInFlight)

(* An on-demand refresh has stored its snapshot and shown it after its    *)
(* entity was deselected or another entity was selected                   *)
C30_Witness ==
    \E e \in Names :
        /\ networkDataCache[e].obj > Len(NETWORKS)
        /\ card.obj = networkDataCache[e].obj
        /\ network # e
        /\ refreshes = {}

(* C31: the card shows the selected entity's data. When the on-demand     *)
(* refresh of an entity completes while another entity is selected, the   *)
(* completion does not put its results on the card.                       *)
C31_CardShowsSelection ==
    [][\A r \in refreshes :
          (/\ r.kind = "ondemand"
           /\ r.id \notin OnDemandInFlight'
           /\ network \in Names
           /\ network # r.net) => card'.obj # r.id]_vars

(* C32: the dApp-node computation discards stale results. When a registry *)
(* fetch started by an earlier selection settles after selectedNetwork    *)
(* has changed or was cleared, dappNodes stays as it is.                  *)
C32_StaleDappFetchDiscarded ==
    [][\A q \in dappFetches :
          (/\ q.settledAt = 0
           /\ q.started < selections
           /\ \E p \in dappFetches' : p.started = q.started /\ p.settledAt # 0)
          => dappNodes' = dappNodes]_vars

(* A fetch settled after the selection had changed, and the nodes shown   *)
(* are those of the network selected now, another one                     *)
C32_Witness ==
    \E q \in dappFetches :
        /\ q.settledAt > q.started
        /\ network \in Names
        /\ network # q.net
        /\ dappNodes = computeDappNodes(network, "protocols")

(* C33: for each provider cache the stored timestamp never decreases, and *)
(* the payload stored is never one whose request was started before the   *)
(* request of the payload it replaces.                                    *)
C33_ProviderCacheMonotonic ==
    [][/\ poolsCacheTime' >= poolsCacheTime
       /\ stablecoinCacheTime' >= stablecoinCacheTime
       /\ fngCacheTime' >= fngCacheTime
       /\ poolsCache'.n >= poolsCache.n
       /\ stablecoinChainsCache'.n >= stablecoinChainsCache.n
       /\ fngCache'.n >= fngCache.n]_vars

(* C34: the entity cache holds the snapshot of the most recently started  *)
(* refresh among those completed. A refresh that completes leaves the     *)
(* stored snapshot alone when that snapshot comes from a refresh started  *)
(* after it.                                                              *)
C34_LatestStartedWins ==
    [][\A r \in refreshes :
          (/\ Joined(r)
           /\ \A q \in refreshes' : q.id # r.id
           /\ networkDataCache[r.net].obj \notin r.earlier)
          => networkDataCache'[r.net] = networkDataCache[r.net]]_vars

(* C35: snapshots are cached regardless of provider failures. A refresh   *)
(* in which provider calls failed stores, when its join is fulfilled, a   *)
(* snapshot stamped with the current time; and a request for an entity    *)
(* made less than 5 minutes after the stored fetchedAt starts no refresh, *)
(* whatever failed in the refresh that stored the snapshot.               *)
C35_FailuresAreCached ==
    /\ [][\A r \in refreshes :
             (r.fails # {} /\ Joined(r) /\ \A q \in refreshes' : q.id # r.id) =>
                /\ networkDataCache'[r.net].obj = r.id
                /\ networkDataCache'[r.net].fetchedAt = now]_vars
    /\ [][\A e \in Names :
             (/\ network' = e
              /\ network # e
              /\ networkDataCache[e].obj # 0
              /\ now - networkDataCache[e].fetchedAt < CACHE_MAX_AGE)
             => /\ refreshes' = refreshes
                /\ card'.obj = networkDataCache[e].obj]_vars

(* A snapshot with every provider default is stored, and a request made   *)
(* later within its lifetime was answered from it                         *)
C35_Witness ==
    \E e \in Names :
        /\ networkDataCache[e].obj # 0
        /\ AllDefaults(networkDataCache[e].data)
        /\ network = e
        /\ card.obj = networkDataCache[e].obj
        /\ lastRet[e].obj = networkDataCache[e].obj
        /\ lastRet[e].reqAt > networkDataCache[e].fetchedAt

(* C36: when the join of an on-demand refresh rejects, the entity's cache *)
(* entry stays as it is and the loading flag is cleared; nothing of the   *)
(* refresh remains, and a later request for the entity, its stored        *)
(* snapshot missing or stale, starts a new refresh.                       *)
C36_RejectedJoin ==
    /\ [][\A r \in refreshes :
             (/\ r.kind = "ondemand"
              /\ ~Joined(r)
              /\ \A q \in refreshes' : q.id # r.id)
             => /\ networkDataCache' = networkDataCache
                /\ card' = card
                /\ loading' = FALSE]_vars
    /\ [][\A e \in Names :
             (/\ network' = e
              /\ network # e
              /\ ~isCacheValid(networkDataCache[e], now))
             => /\ loading'
                /\ \E q \in refreshes' \ refreshes :
                      /\ q.kind = "ondemand"
                      /\ q.net = e
                      /\ q.pending = ProviderCalls(e)]_vars

(* The first request's join rejected (its object is nowhere) and a second *)
(* request for the same entity has a refresh in flight                    *)
C36_Witness ==
    \E r \in refreshes :
        /\ r.kind = "ondemand"
        /\ r.id = Len(NETWORKS) + 2
        /\ lastRet[r.net].obj = 0
        /\ launched = 2
        /\ network = r.net
        /\ loading
        /\ \A e \in Names : networkDataCache[e].obj # Len(NETWORKS) + 1
        /\ card.obj # Len(NETWORKS) + 1

(* C37: the warm-up terminates. preFetchNetworkData resolves in the end;  *)
(* every entity of the roster then has a snapshot in the entity cache;    *)
(* the cache-ready flag is set by it if the app is still mounted, and is  *)
(* never set on an unmounted app.                                         *)
C37_WarmupTerminates ==
    /\ <>resolved
    /\ [](resolved => RosterNames(NETWORKS) \subseteq CachedNames)
    /\ [][(resolved' /\ ~resolved /\ mounted) => cacheReady']_vars
    /\ [][(cacheReady' /\ ~cacheReady) => mounted]_vars

(* The (protocol, chain) memberships of a protocol list: the positions of *)
(* the chains in the chains arrays                                         *)
Memberships(protocols) ==
    UNION {{<<i, j>> : j \in 1..Len(protocols[i].chains)} :
              i \in {i \in 1..Len(protocols) : protocols[i].array}}

(* The counter a chain belongs to: the key of the entry whose registry    *)
(* name it is, else the chain itself                                       *)
CanonicalName(chain) ==
    LET keys == {i \in DOMAIN ChainMapKeys :
                    CHAIN_NAME_MAP(ChainMapKeys[i]).defillamaName = chain}
    IN  IF keys # {} THEN ChainMapKeys[CHOOSE i \in keys : \A j \in keys : i <= j]
        ELSE chain

RECURSIVE SumOf(_, _)
SumOf(counts, keys) ==
    IF keys = {} THEN 0
    ELSE LET key == CHOOSE k \in keys : TRUE
         IN  counts[key] + SumOf(counts, keys \ {key})

(* C39: protocol counting. For every protocol list each (protocol, chain) *)
(* membership increments exactly one counter by 1, the canonical entity    *)
(* name's when the chain is an entity's registry name and the raw chain's  *)
(* otherwise: every counter equals the number of memberships that belong   *)
(* to it, the counters sum to the number of memberships, and a response    *)
(* that is no array yields empty counts.                                   *)
C39_ProtocolCounting ==
    call.fn = "fetchProtocols" =>
        LET protocols == call.data.protocols
            counts == call.ret.counts
            counted(key) == {m \in Memberships(protocols) :
                                CanonicalName(protocols[m[1]].chains[m[2]]) = key}
        IN  /\ call.data.kind # "array" => counts = NoCounts
            /\ call.data.kind = "array" =>
                  /\ DOMAIN counts = {CanonicalName(protocols[m[1]].chains[m[2]]) :
                                         m \in Memberships(protocols)}
                  /\ \A key \in DOMAIN counts : counts[key] = Cardinality(counted(key))
                  /\ SumOf(counts, DOMAIN counts) = Cardinality(Memberships(protocols))

(* A list of two protocols was counted: a registry name that is no key    *)
(* and a key that is no registry name met in one counter, next to a chain  *)
(* the map does not have                                                   *)
C39_Witness ==
    /\ call.fn = "fetchProtocols"
    /\ call.data.kind = "array"
    /\ Len(call.data.protocols) = MaxProtocols
    /\ DOMAIN call.ret.counts = {"Cosmos", "Linea"}
    /\ call.ret.counts["Cosmos"] = 2

(* C38: the analytics of all entities. fetchAllNetworkAnalytics returns   *)
(* exactly one entry for every key of the static chain map whatever the    *)
(* outcome of the two bulk fetches; when the TVL fetch fails every entry   *)
(* has tvl 0 and market share 0 (no division by zero), and when the        *)
(* protocol fetch fails every entry has dappCount 0 and dapps 'N/A'.       *)
C38_OneEntryPerKey ==
    call.fn = "fetchAllNetworkAnalytics" =>
        /\ DOMAIN call.ret = {ChainMapKeys[i] : i \in DOMAIN ChainMapKeys}
        /\ call.data.tvl.kind = "error" =>
              \A networkName \in DOMAIN call.ret :
                  /\ call.ret[networkName].tvl = 0
                  /\ call.ret[networkName].marketShare = Num(0)
        /\ call.data.protocols.kind = "error" =>
              \A networkName \in DOMAIN call.ret :
                  /\ call.ret[networkName].dappCount = 0
                  /\ call.ret[networkName].dapps = NotAvailable

(* The TVL fetch failed while the protocol fetch counted a protocol of an *)
(* entity of the map                                                       *)
C38_Witness ==
    /\ call.fn = "fetchAllNetworkAnalytics"
    /\ call.data.tvl.kind = "error"
    /\ call.data.protocols.kind = "array"
    /\ call.ret["Cosmos"].dappCount > 0
    /\ call.ret["Cosmos"].tvl = 0

(* The chain endpoints in the order testAPI lists them: base URL by base  *)
(* URL, endpoint by endpoint                                               *)
ListedOrder ==
    [i \in 1..(Len(BASE_URLS) * Len(endpoints)) |->
        <<((i - 1) \div Len(endpoints)) + 1, ((i - 1) % Len(endpoints)) + 1>>]

(* C40: the endpoint probe never throws. testEndpoint returns success =   *)
(* true iff the response status is OK and the body parses, and success =  *)
(* false with a status or an error message otherwise; testAPI probes the  *)
(* base URLs and endpoints in the listed order and stops at the first     *)
(* endpoint that returns a non-empty array.                                *)
C40_ProbeNeverThrows ==
    /\ probe.phase # "rejected"
    /\ probe.result # NoProbeResult =>
          /\ probe.result.settled = "returns"
          /\ probe.result.success <=> probe.result.met \in {"object", "[]", "array"}
          /\ ~probe.result.success => probe.result.has \cap {"status", "error"} # {}
    /\ Len(probe.probed) <= Len(ListedOrder)
    /\ \A i \in DOMAIN probe.probed :
          /\ <<probe.probed[i].baseUrl, probe.probed[i].endpoint>> = ListedOrder[i]
          /\ probe.probed[i].found => i = Len(probe.probed)
          /\ probe.probed[i].found =>
                probe.workingEndpoint = ListedOrder[i] /\ probe.phase # "chains"
    /\ probe.phase # "chains" =>
          \/ Len(probe.probed) = Len(ListedOrder)
          \/ \E i \in DOMAIN probe.probed : probe.probed[i].found

====
